---- MODULE Spec2Model ----
(***************************************************************************)
(* The dashboard of the knowledge engine: the force-directed graph engine  *)
(* (KnowledgeGraph), the navigation panel (Sidebar), the detail viewer     *)
(* (InsightViewer) and the coordinator (KnowledgeEngineApp); and the       *)
(* browser extension: its popup and its background service worker.         *)
(*                                                                         *)
(* Every JavaScript object is one variable holding a record of its fields; *)
(* every method is an operator from the record before the call to the      *)
(* record after it, and every event handler or promise continuation is one *)
(* action.  DOM elements are records of the attributes the code writes.    *)
(***************************************************************************)
EXTENDS Integers, Sequences, FiniteSets, TLC

VARIABLES
    kg,        \* the KnowledgeGraph object and the SVG elements it owns
    sidebar,   \* the Sidebar object and the DOM elements it owns
    viewer,    \* the InsightViewer object and the DOM elements it owns
    app,       \* the KnowledgeEngineApp object, window.app, initialize()'s position
    net,       \* the requests in flight
    timers,    \* the pending setTimeout timers of the search input
    hist,      \* history (ghost) variables the properties are stated with
    popup,     \* the popup of the browser extension and the DOM elements it owns
    storage,   \* chrome.storage.local and the operations on it in flight
    background \* the service worker of the browser extension

vars == <<kg, sidebar, viewer, app, net, timers, hist, popup, storage, background>>

Null == "null"

----------------------------------------------------------------------------
(* Bounds of the model *)

\* calls of render in one behaviour (each appends a circle to every group)
MaxRenders == 2
\* ticks a simulation runs before its energy is under the stop threshold
MaxTicks == 2
\* search requests issued in one behaviour
MaxSearches == 2
\* theme-scoped graph requests issued in one behaviour
MaxGraphLoads == 1
\* insight requests issued in one behaviour
MaxInsightLoads == 2
\* clicks on the refresh button in one behaviour
MaxRefreshes == 1
\* resize events in one behaviour
MaxResizes == 2
\* drag gestures started in one behaviour
MaxGestures == 2
\* clicks on the build-index button
MaxBuilds == 1
\* the largest connection count a radius is computed for
MaxConnections == 17
\* the longest cross-reference target, and the longest display text
MaxTarget == 3
MaxDisplay == 2

\* saves of the page and uploads of a PDF started in one behaviour of the popup
MaxSaves == 3

\* process messages the service worker receives in one behaviour
MaxMessages == 4

----------------------------------------------------------------------------
(* Helpers *)

Min(a, b) == IF a <= b THEN a ELSE b

Range(s) == {s[i] : i \in DOMAIN s}

----------------------------------------------------------------------------
(* Input data: graph snapshots as the graph endpoint returns them           *)

Node(id, theme) == [id |-> id, theme |-> theme]
Edge(s, t) == [source |-> s, target |-> t]

\* the orphans list the graph endpoint puts into a snapshot: the ids of the
\* nodes that no edge has as an endpoint
Orphans(nodes, edges) ==
    SelectSeq([i \in DOMAIN nodes |-> nodes[i].id],
              LAMBDA id : \A j \in DOMAIN edges :
                             edges[j].source # id /\ edges[j].target # id)

\* the snapshots the engine is rendered with when it is driven on its own ...
SnapTriple == [nodes |-> <<Node("b", "B"), Node("a", "A"), Node("c", "B")>>,
               edges |-> <<Edge("a", "b"), Edge("b", "c"), Edge("b", "c")>>,
               orphans |-> <<>>]
SnapLoop == [nodes |-> <<Node("a", "A"), Node("c", "B")>>,
             edges |-> <<Edge("c", "c")>>,
             orphans |-> Orphans(<<Node("a", "A"), Node("c", "B")>>, <<Edge("c", "c")>>)]
SnapDangling == [nodes |-> <<Node("a", "A"), Node("b", "B")>>,
                 edges |-> <<Edge("a", "b"), Edge("a", "z")>>,
                 orphans |-> <<>>]

\* ... and the ones the backend serves the dashboard: the whole vault, and the
\* vault scoped to one theme
SnapFull == [nodes |-> <<Node("a", "A"), Node("b", "B"), Node("c", "B")>>,
             edges |-> <<Edge("a", "b"), Edge("b", "c")>>,
             orphans |-> <<>>]
SnapThemeA == [nodes |-> <<Node("a", "A")>>,
               edges |-> <<>>,
               orphans |-> Orphans(<<Node("a", "A")>>, <<>>)]
SnapThemeB == [nodes |-> <<Node("b", "B"), Node("c", "B")>>,
               edges |-> <<Edge("b", "c")>>,
               orphans |-> <<>>]

Themes == {"A", "B"}

\* snapshots are held by name; Null names no snapshot
Snapshot(name) ==
    CASE name = "triple" -> SnapTriple
      [] name = "loop" -> SnapLoop
      [] name = "dangling" -> SnapDangling
      [] name = "full" -> SnapFull
      [] name = "A" -> SnapThemeA
      [] name = "B" -> SnapThemeB

HarnessSnapshots == {"triple", "loop", "dangling"}

\* what GET /api/vault/graph answers, without and with ?theme=
GraphOf(theme) == IF theme = Null THEN "full" ELSE theme

NodeIdsOf(snapshot) == {snapshot.nodes[i].id : i \in DOMAIN snapshot.nodes}

----------------------------------------------------------------------------
(* KnowledgeGraph *)

BaseRadius == 6
MaxRadius == 25
ConnectionCap == 15
HighlightGrow == 6

getNodeRadius_Uncapped(connections) ==
    BaseRadius * ConnectionCap + connections * (MaxRadius - BaseRadius)

\* getNodeRadius, in units of 1/ConnectionCap px so that it stays an integer:
\* baseRadius + min(connections, 15) * (maxRadius - baseRadius) / 15
getNodeRadius(connections) ==
    BaseRadius * ConnectionCap + Min(connections, ConnectionCap) * (MaxRadius - BaseRadius)

\* render's connection count of node id: one increment for the source and one
\* for the target of every link
connectionCount(links, id) ==
    Cardinality({i \in DOMAIN links : links[i].source = id})
  + Cardinality({i \in DOMAIN links : links[i].target = id})

\* d3.forceSimulation gives a node that has no x the phyllotaxis position of its
\* index (here 1-based and rounded): 10 * sqrt(i - 0.5) at angle (i - 1) * pi * (3 - sqrt(5))
InitialPosition(i) ==
    CASE i = 1 -> [x |-> 7, y |-> 0]
      [] i = 2 -> [x |-> -9, y |-> 8]
      [] i = 3 -> [x |-> 1, y |-> -16]
      [] OTHER -> [x |-> 0 - i, y |-> i]

\* what one tick may add to a node's position: the forces are floating-point
\* physics, modelled as a choice
Displacements == {[x |-> 0, y |-> 0], [x |-> 1, y |-> 2]}

\* what a tick adds to every free node once the forces are in balance
Still == [x |-> 0, y |-> 0]

\* the sizes the svg element may have, the first one when the page is loaded
InitialSize == [width |-> 800, height |-> 600]
ViewportSizes == {InitialSize, [width |-> 1024, height |-> 600]}

\* where a pointer may be during a drag gesture, and the touches that may be
\* down at the same time
Pointers == {[x |-> 5, y |-> 5]}
Touches == {1, 2}

\* The energy (alpha) of a simulation is held as the number of ticks it takes
\* to decay under alphaMin: MaxTicks for alpha = 1, WarmAlpha for alpha = 0.3,
\* 0 for an alpha under alphaMin.  An alphaTarget is held the same way.
WarmAlpha == MaxTicks - 1

\* this.simulation = null
NoSimulation ==
    [exists |-> FALSE, alpha |-> 0, alphaTarget |-> 0, running |-> FALSE,
     frame |-> FALSE, center |-> InitialSize, gen |-> 0]

\* d3.forceSimulation(nodes) with the centre force render gives it: alpha = 1,
\* alphaTarget = 0, its timer started; gen tells which node objects it moves,
\* frame is the parity of the ticks it has run
NewSimulation(g, gen) ==
    [exists |-> TRUE, alpha |-> MaxTicks, alphaTarget |-> 0, running |-> TRUE,
     frame |-> FALSE, center |-> [width |-> g.width, height |-> g.height], gen |-> gen]

\* one step of a simulation's timer: alpha moves towards alphaTarget, the tick
\* listener runs, and the timer stops once alpha is under alphaMin
stepSimulation(sim) ==
    LET a == IF sim.alpha > sim.alphaTarget THEN sim.alpha - 1
             ELSE IF sim.alpha < sim.alphaTarget THEN sim.alpha + 1
             ELSE sim.alpha
    IN [sim EXCEPT !.alpha = a, !.running = (a > 0), !.frame = ~@]

\* the constructor
NewKnowledgeGraph ==
    [graph |-> Null,            \* this.graph, by name
     nodes |-> <<>>,            \* this.nodes
     links |-> <<>>,            \* this.links
     currentTheme |-> Null,
     highlightedNode |-> Null,
     nodeClickCallback |-> FALSE,   \* whether a callback is set
     client |-> InitialSize,    \* this.svg.node().clientWidth and clientHeight
     width |-> InitialSize.width,
     height |-> InitialSize.height,
     simulation |-> NoSimulation,   \* this.simulation
     otherSims |-> {},          \* simulations still running that the engine no longer refers to
     gen |-> 0,                 \* which objects this.nodes holds: those of the gen-th render
     elemGen |-> 0,             \* which objects the elements are bound to, and which
                                \* drag behaviour the node groups have
     gestures |-> {},           \* the drag gestures that are active
     nodeElements |-> <<>>,     \* g.node by id (a function on the ids shown)
     labelElements |-> <<>>,    \* text.node-label by id
     linkElements |-> <<>>,     \* line.link, in order
     zoom |-> 1000,             \* the scale of the svg's zoom state, in thousandths
     transformScale |-> 1000]   \* the scale of the transform g.graph-main has

\* a link refers to a node that the snapshot does not hold: d3.forceLink's
\* initialize throws "node not found"
HasDanglingLink(snapshot) ==
    \E i \in DOMAIN snapshot.edges :
        \/ snapshot.edges[i].source \notin NodeIdsOf(snapshot)
        \/ snapshot.edges[i].target \notin NodeIdsOf(snapshot)

\* this.nodes after render: fresh copies of the snapshot's nodes with the
\* connection count, positioned by d3.forceSimulation
renderedNodes(snapshot) ==
    [i \in DOMAIN snapshot.nodes |->
        [id |-> snapshot.nodes[i].id,
         theme |-> snapshot.nodes[i].theme,
         connections |-> connectionCount(snapshot.edges, snapshot.nodes[i].id),
         x |-> InitialPosition(i).x,
         y |-> InitialPosition(i).y,
         pinned |-> FALSE,      \* whether fx and fy are set (the snapshot's nodes have none)
         fx |-> 0,
         fy |-> 0]]

NodeById(nodes, id) == nodes[CHOOSE i \in DOMAIN nodes : nodes[i].id = id]

\* the datum an element is bound to: the node object (its position is read
\* from this.nodes)
Datum(n) == [id |-> n.id, theme |-> n.theme, connections |-> n.connections]

\* the circle renderNodes appends to a node group
NewCircle(d) ==
    [connections |-> d.connections,      \* of the datum bound to the circle
     r |-> getNodeRadius(d.connections),
     stroke |-> IF d.connections = 0 THEN "#cbd5e1" ELSE "#ffffff",
     strokeWidth |-> "2",
     dasharray |-> IF d.connections = 0 THEN "4,4" ELSE "0",
     opacity |-> IF d.connections = 0 THEN "0.6" ELSE "1",
     filter |-> Null]

\* renderNodes: join by id (entering groups are created with class "node",
\* updated groups keep their class, exiting groups are removed), then a circle
\* is appended to every joined group
renderNodes(g) ==
    LET ids == {g.nodes[i].id : i \in DOMAIN g.nodes}
        joined(id) ==
            IF id \in DOMAIN g.nodeElements
            THEN [g.nodeElements[id] EXCEPT !.datum = Datum(NodeById(g.nodes, id))]
            ELSE [datum |-> Datum(NodeById(g.nodes, id)), dimmed |-> FALSE, circles |-> <<>>]
    IN [g EXCEPT !.nodeElements =
            [id \in ids |->
                [joined(id) EXCEPT !.circles = Append(@, NewCircle(joined(id).datum))]]]

\* renderLabels: join by id
renderLabels(g) ==
    LET ids == {g.nodes[i].id : i \in DOMAIN g.nodes}
    IN [g EXCEPT !.labelElements =
            [id \in ids |->
                IF id \in DOMAIN g.labelElements
                THEN [g.labelElements[id] EXCEPT !.datum = Datum(NodeById(g.nodes, id))]
                ELSE [datum |-> Datum(NodeById(g.nodes, id)), dimmed |-> FALSE]]]

\* renderLinks: join, then attr('class', 'link') on every joined line, which
\* drops any other class the line had
renderLinks(g) ==
    [g EXCEPT !.linkElements =
        [i \in DOMAIN g.links |->
            [source |-> Datum(NodeById(g.nodes, g.links[i].source)),
             target |-> Datum(NodeById(g.nodes, g.links[i].target)),
             dimmed |-> FALSE]]]

\* render(graphData, options): the engine after the call, whether the call
\* threw (the forceLink initialisation, before anything is drawn), and what
\* options.onRender was called with
render(g, name) ==
    LET snapshot == Snapshot(name)
        g1 == [g EXCEPT !.graph = name,
                        !.nodes = renderedNodes(snapshot),
                        !.links = snapshot.edges,
                        !.gen = @ + 1]
        created == NewSimulation(g, g1.gen)
    IN IF HasDanglingLink(snapshot)
       THEN \* the simulation created is left running with no force and no
            \* listener; this.simulation is still the one before
            [kg |-> [g1 EXCEPT !.otherSims = @ \cup {created}],
             threw |-> TRUE,
             stats |-> [nodeCount |-> 0, linkCount |-> 0, orphanCount |-> 0]]
       ELSE \* the simulation before is not stopped
            [kg |-> [renderLabels(renderNodes(renderLinks(g1))) EXCEPT
                        !.simulation = created,
                        !.otherSims = IF g.simulation.running
                                      THEN @ \cup {g.simulation} ELSE @,
                        !.elemGen = g1.gen],
             threw |-> FALSE,
             stats |-> [nodeCount |-> Len(g1.nodes),
                        linkCount |-> Len(g1.links),
                        orphanCount |-> Len(snapshot.orphans)]]

\* updateHighlight: the dimmed class of every node, label and link
updateHighlight(g) ==
    LET other(d) == g.currentTheme # Null /\ d.theme # g.currentTheme
    IN [g EXCEPT
         !.nodeElements = [id \in DOMAIN g.nodeElements |->
                              [g.nodeElements[id] EXCEPT
                                  !.dimmed = other(g.nodeElements[id].datum)]],
         !.labelElements = [id \in DOMAIN g.labelElements |->
                               [g.labelElements[id] EXCEPT
                                   !.dimmed = other(g.labelElements[id].datum)]],
         !.linkElements = [i \in DOMAIN g.linkElements |->
                              [g.linkElements[i] EXCEPT
                                  !.dimmed = other(g.linkElements[i].source)
                                             /\ other(g.linkElements[i].target)]]]

filterByTheme_ClearsHighlight(g, theme) ==
    LET reset(c) == [c EXCEPT !.strokeWidth = "2", !.stroke = "#ffffff", !.opacity = "0.7"]
        f == updateHighlight([g EXCEPT !.currentTheme = theme])
    IN [f EXCEPT !.nodeElements =
           [id \in DOMAIN f.nodeElements |->
               [f.nodeElements[id] EXCEPT
                   !.circles = [k \in DOMAIN @ |-> reset(@[k])]]]]

filterByTheme(g, theme) == updateHighlight([g EXCEPT !.currentTheme = theme])

clearFilter_NoUpdate(g) == [g EXCEPT !.currentTheme = Null]

clearFilter(g) == updateHighlight([g EXCEPT !.currentTheme = Null])

\* highlightSearchResults: reset every circle, then emphasise the first circle
\* of the group of every id that is shown
highlightSearchResults(g, nodeIds) ==
    LET reset(c) == [c EXCEPT !.strokeWidth = "2",
                              !.stroke = "#ffffff",
                              !.r = getNodeRadius(c.connections),
                              !.opacity = "0.7"]
        mark(c, d) == [c EXCEPT !.connections = d.connections,
                                !.strokeWidth = "20",
                                !.stroke = "#ffd700",
                                !.r = getNodeRadius(d.connections) + HighlightGrow * ConnectionCap,
                                !.opacity = "1",
                                !.filter = "brightness(1.2)"]
        circlesOf(el, hit) ==
            [k \in DOMAIN el.circles |->
                IF hit /\ k = 1 THEN mark(reset(el.circles[k]), el.datum)
                ELSE reset(el.circles[k])]
    IN [g EXCEPT !.nodeElements =
            [id \in DOMAIN g.nodeElements |->
                [g.nodeElements[id] EXCEPT
                    !.circles = circlesOf(g.nodeElements[id], id \in Range(nodeIds))]]]

\* a tick of this.simulation: the energy moves towards its target, and if the
\* simulation moves this.nodes, every free node moves and every pinned node is
\* put at its pin
tick(g, move) ==
    [g EXCEPT !.nodes = IF g.simulation.gen # g.gen THEN @
                        ELSE [i \in DOMAIN g.nodes |->
                                IF g.nodes[i].pinned
                                THEN [g.nodes[i] EXCEPT !.x = g.nodes[i].fx, !.y = g.nodes[i].fy]
                                ELSE [g.nodes[i] EXCEPT !.x = @ + move[i].x, !.y = @ + move[i].y]],
              !.simulation = stepSimulation(@)]

\* a tick of a simulation the engine no longer refers to; it is dropped once
\* it has stopped
tickOther(g, sim) ==
    LET s1 == stepSimulation(sim)
    IN [g EXCEPT !.otherSims = (@ \ {sim}) \cup (IF s1.running THEN {s1} ELSE {})]

onWindowResize_Unguarded(g) ==
    [kg |-> [g EXCEPT !.width = g.client.width, !.height = g.client.height,
                      !.simulation = IF @.exists
                                     THEN [@ EXCEPT !.center = g.client, !.alpha = WarmAlpha,
                                                    !.running = TRUE]
                                     ELSE @],
     restarted |-> g.simulation.exists]

\* onWindowResize: the engine after the call, and whether the simulation was
\* restarted
onWindowResize(g) ==
    IF g.client.width # g.width \/ g.client.height # g.height
    THEN [kg |-> [g EXCEPT !.width = g.client.width, !.height = g.client.height,
                           !.simulation = IF @.exists
                                          THEN [@ EXCEPT !.center = g.client,
                                                         !.alpha = WarmAlpha,
                                                         !.running = TRUE]
                                          ELSE @],
          restarted |-> g.simulation.exists]
    ELSE [kg |-> g, restarted |-> FALSE]

\* the number of gestures of the drag behaviour gen that are active
activeGestures(g, gen) == Cardinality({ge \in g.gestures : ge.gen = gen})

\* the node objects a gesture's subject belongs to are this.nodes
subjectShown(g, ge) ==
    ge.gen = g.gen /\ \E i \in DOMAIN g.nodes : g.nodes[i].id = ge.node

\* this.nodes with the node id pinned at p
pinNode(nodes, id, p) ==
    [i \in DOMAIN nodes |->
        IF nodes[i].id = id
        THEN [nodes[i] EXCEPT !.pinned = TRUE, !.fx = p.x, !.fy = p.y]
        ELSE nodes[i]]

\* this.nodes with the pin of node id removed
unpinNode(nodes, id) ==
    [i \in DOMAIN nodes |->
        IF nodes[i].id = id
        THEN [nodes[i] EXCEPT !.pinned = FALSE, !.fx = 0, !.fy = 0]
        ELSE nodes[i]]

\* the drag behaviour's start listener for a gesture ge that begins
dragStart(g, ge) ==
    LET first == activeGestures(g, ge.gen) = 0
        g1 == [g EXCEPT !.simulation = IF first
                                       THEN [@ EXCEPT !.alphaTarget = WarmAlpha, !.running = TRUE]
                                       ELSE @,
                        !.gestures = @ \cup {ge}]
    IN IF subjectShown(g, ge)
       THEN [g1 EXCEPT !.nodes = pinNode(@, ge.node,
                                         [x |-> NodeById(g.nodes, ge.node).x,
                                          y |-> NodeById(g.nodes, ge.node).y])]
       ELSE g1

\* the drag listener: the pointer of gesture ge is at p
dragMove(g, ge, p) ==
    IF subjectShown(g, ge) THEN [g EXCEPT !.nodes = pinNode(@, ge.node, p)] ELSE g

\* the end listener for gesture ge
dragEnd(g, ge) ==
    LET g1 == [g EXCEPT !.gestures = @ \ {ge}]
        last == activeGestures(g1, ge.gen) = 0
        g2 == [g1 EXCEPT !.simulation = IF last /\ @.exists
                                        THEN [@ EXCEPT !.alphaTarget = 0] ELSE @]
    IN IF subjectShown(g, ge)
       THEN [g2 EXCEPT !.nodes = unpinNode(@, ge.node)]
       ELSE g2

----------------------------------------------------------------------------
(* InsightViewer *)

\* the text .viewer-empty holds when the page is loaded
PlaceholderText == "placeholder"

NewInsightViewer ==
    [currentInsight |-> Null,
     emptyText |-> PlaceholderText,   \* .viewer-empty: textContent
     emptyShown |-> TRUE,             \* .viewer-empty: display
     detailShown |-> FALSE,           \* #insight-detail: display
     content |-> Null,                \* #insight-content, by insight id
     sourceRowShown |-> TRUE,         \* #source-row: display (shown unless hidden)
     sourceLink |-> Null]             \* the href of the link that stands where
                                      \* #insight-source stood (Null: it still stands)

\* the source_url of the insight the backend serves under an id
SourceUrl(id) ==
    CASE id = "a" -> "https://a"
      [] id = "b" -> "local-pdf"
      [] id = "c" -> "https://c"
      [] OTHER -> "unknown"

\* render's test of insight.source_url
HasSource(url) == url # "" /\ url # "local-pdf" /\ url # "unknown"

\* render(insight), after loadInsight's request succeeded; the link is put
\* in with this.sourceEl.replaceWith(link), which does nothing once
\* this.sourceEl has been replaced and has no parent any more
viewerRender(v, id) ==
    LET shown == [v EXCEPT !.currentInsight = id, !.content = id,
                           !.emptyShown = FALSE, !.detailShown = TRUE]
    IN IF HasSource(SourceUrl(id))
       THEN [shown EXCEPT !.sourceRowShown = TRUE,
                          !.sourceLink = IF @ = Null THEN SourceUrl(id) ELSE @]
       ELSE [shown EXCEPT !.sourceRowShown = FALSE]

\* InsightViewer.clear
viewerClear(v) ==
    [v EXCEPT !.currentInsight = Null, !.emptyShown = TRUE,
              !.detailShown = FALSE, !.content = Null]

viewerShowError_DetailStays(v, message) ==
    [v EXCEPT !.emptyText = message, !.emptyShown = TRUE]

\* InsightViewer.showError
viewerShowError(v, message) ==
    [v EXCEPT !.emptyText = message, !.emptyShown = TRUE, !.detailShown = FALSE]

----------------------------------------------------------------------------
(* Sidebar *)

DebounceDelay == 300
\* time advances in thirds of the debounce delay
TimeStep == DebounceDelay \div 3
NoTimer == 0 - 1

\* what the user may type into the search input
Queries == {"", "alp", "alpha"}

\* the result lists (ids, in order) the search endpoint may answer with
ResultLists == {<<>>, <<"b", "a">>}

NewSidebar ==
    [themes |-> {},                \* this.themes: the names loaded
     themeItems |-> FALSE,         \* whether renderThemes has drawn the theme list
     selectedTheme |-> Null,
     searchQuery |-> "",
     searchResults |-> <<>>,
     searchTimeout |-> NoTimer,    \* the handle: the time its timer has left
     onThemeClick |-> FALSE,       \* whether the callback is set
     onSearch |-> FALSE,           \* whether the callback is set
     semantic |-> FALSE,           \* #semantic-toggle: checked
     clearActive |-> FALSE,        \* #search-clear: class active
     resultsShown |-> FALSE,       \* #search-results: display
     resultCards |-> <<>>,         \* #search-results-list: the cards, by result id
     refreshLoading |-> FALSE,     \* #refresh-btn: class loading
     statusTimers |-> 0,           \* pending timers that blank the refresh status
     refreshStatus |-> [text |-> "", error |-> FALSE, success |-> FALSE],
     demoMode |-> FALSE,           \* the constructor's parameter, false by default
     refreshBtnShown |-> TRUE,     \* #refresh-btn: display (shown unless hidden)
     buildIndexBtnShown |-> TRUE,  \* #build-index-btn: display (shown unless hidden)
     buildIndexBtnDisabled |-> FALSE,
     indexStatusText |-> ""]       \* #index-status-text

\* new Sidebar(demoMode): in demo mode the two buttons are hidden
Sidebar(demoMode) ==
    IF demoMode
    THEN [NewSidebar EXCEPT !.demoMode = TRUE,
                            !.refreshBtnShown = FALSE,
                            !.buildIndexBtnShown = FALSE]
    ELSE NewSidebar

\* what /api/vault/embedding-index/status may do: answer built, answer not
\* built, or fail
IndexOutcomes == {"built", "notBuilt", "failed"}

loadIndexStatus_ShowsButton(s, outcome) ==
    CASE outcome = "built" ->
             [s EXCEPT !.indexStatusText = "Semantic search ready",
                       !.buildIndexBtnShown = FALSE,
                       !.semantic = TRUE]
      [] outcome = "notBuilt" ->
             [s EXCEPT !.indexStatusText = "Build index to enable semantic search",
                       !.buildIndexBtnShown = TRUE,
                       !.semantic = FALSE]
      [] OTHER -> s

\* loadIndexStatus() once its request has answered or thrown
loadIndexStatus(s, outcome) ==
    CASE outcome = "built" ->
             [s EXCEPT !.indexStatusText = "Semantic search ready",
                       !.buildIndexBtnShown = FALSE,
                       !.semantic = TRUE]
      [] outcome = "notBuilt" ->
             [s EXCEPT !.indexStatusText = "Build index to enable semantic search",
                       !.buildIndexBtnShown = ~s.demoMode,
                       !.semantic = FALSE]
      [] OTHER -> s

\* buildIndex() up to its await
buildIndexBegin(s) ==
    [s EXCEPT !.buildIndexBtnDisabled = TRUE, !.indexStatusText = "Building index..."]

\* buildIndex() after its await, but for the search it may start: the try's
\* statements or the catch, then the finally
buildIndexEnd(s, ok) ==
    IF ok
    THEN [s EXCEPT !.indexStatusText = "Semantic search ready",
                   !.buildIndexBtnShown = FALSE,
                   !.semantic = TRUE,
                   !.buildIndexBtnDisabled = FALSE]
    ELSE [s EXCEPT !.indexStatusText = "Error building index",
                   !.buildIndexBtnDisabled = FALSE]

hideSearchResults(s) == [s EXCEPT !.resultsShown = FALSE, !.resultCards = <<>>]

renderSearchResults(s, results) == [s EXCEPT !.resultCards = results, !.resultsShown = TRUE]

clearTimeout_Forgotten(ts, handle) == ts

\* clearTimeout(handle); the handle of a timer that fired cancels nothing
clearTimeout(ts, handle) == ts \ {handle}

\* what /api/vault/themes may do: answer with the themes, answer with an
\* error status and a JSON body that describes the error, or fail so that
\* fetch or the decoding of the body throws
ThemeOutcomes == {"ok", "error", "thrown"}

\* the keys of the body of an error answer
ErrorBody == {"detail"}

\* loadThemes() once its request has answered or thrown: whatever body was
\* decoded becomes this.themes and is drawn, the status of the answer is not
\* looked at
loadThemes(s, outcome) ==
    CASE outcome = "ok" -> [s EXCEPT !.themes = Themes, !.themeItems = TRUE]
      [] outcome = "error" -> [s EXCEPT !.themes = ErrorBody, !.themeItems = TRUE]
      [] OTHER -> [s EXCEPT !.refreshStatus.text = "Error loading themes",
                            !.refreshStatus.error = TRUE]

\* refresh() up to its first await
refreshBegin(s) ==
    [s EXCEPT !.refreshLoading = TRUE,
              !.refreshStatus = [text |-> "Refreshing...", error |-> FALSE, success |-> FALSE]]

\* refresh() after its awaits: the try's last statements or the catch, then
\* the finally
refreshEnd(s, ok) ==
    IF ok
    THEN [s EXCEPT !.refreshStatus.text = "Refreshed",
                   !.refreshStatus.success = TRUE,
                   !.statusTimers = @ + 1,
                   !.refreshLoading = FALSE]
    ELSE [s EXCEPT !.refreshStatus.text = "Error refreshing",
                   !.refreshStatus.error = TRUE,
                   !.refreshLoading = FALSE]

performSearchCatch_ClearsResults(s) ==
    hideSearchResults([s EXCEPT !.searchResults = <<>>])

\* performSearch's catch: the error is logged, the sidebar is as it was
performSearchCatch(s) == s

\* the callback main.js sets with setSearchCallback, called with null
\* (isNull) or with the result ids
searchCallback(g, isNull, ids) ==
    IF ~isNull /\ Len(ids) > 0
    THEN highlightSearchResults(g, ids)
    ELSE highlightSearchResults(g, <<>>)

\* this.onSearch(arg), if the callback is set: the graph afterwards
onSearch(s, g, isNull, ids) == IF s.onSearch THEN searchCallback(g, isNull, ids) ELSE g

----------------------------------------------------------------------------
(* KnowledgeEngineApp *)

NewApp ==
    [pc |-> "config",        \* where initialize() is: config, themes, graph, ready, failed
     demoMode |-> FALSE,     \* this.demoMode
     graphData |-> Null,     \* this.graphData, by name
     windowApp |-> FALSE,    \* whether window.app is set
     loading |-> TRUE,       \* #graph-loading: class active
     graphStats |-> [shown |-> FALSE, nodeCount |-> 0, linkCount |-> 0]]

\* updateGraphStats, render's onRender
updateGraphStats(a, stats) ==
    [a EXCEPT !.graphStats = [shown |-> TRUE, nodeCount |-> stats.nodeCount,
                              linkCount |-> stats.linkCount]]

\* KnowledgeEngineApp.showError: it writes the viewer's placeholder element
appShowError(v, message) == [v EXCEPT !.emptyText = message, !.emptyShown = TRUE]

setupGraphListeners_NoCallback(g) == g

\* setupEventListeners: the callbacks are set
setupGraphListeners(g) == [g EXCEPT !.nodeClickCallback = TRUE]
setupSidebarListeners(s) == [s EXCEPT !.onThemeClick = TRUE, !.onSearch = TRUE]

----------------------------------------------------------------------------
(* History variables *)

\* the dimmed flags of all elements
DimFlags(g) ==
    [nodes |-> [id \in DOMAIN g.nodeElements |-> g.nodeElements[id].dimmed],
     labels |-> [id \in DOMAIN g.labelElements |-> g.labelElements[id].dimmed],
     links |-> [i \in DOMAIN g.linkElements |-> g.linkElements[i].dimmed]]

\* the positions of the engine's nodes, by id
Positions(g) ==
    [id \in {g.nodes[i].id : i \in DOMAIN g.nodes} |->
        [x |-> NodeById(g.nodes, id).x, y |-> NodeById(g.nodes, id).y]]

NoHistory ==
    [op |-> "none",          \* the last operation ...
     arg |-> Null,           \* ... its argument ...
     rep |-> FALSE,          \* ... and, of a filterByTheme, whether it repeats the call before
     threw |-> FALSE,        \* whether the last render threw
     renders |-> 0,          \* calls of render so far
     posBefore |-> <<>>,     \* after a render: the positions by id just before it
     dimBefore |-> DimFlags(NewKnowledgeGraph),  \* after a filter call: the flags before it
     baseline |-> <<>>,      \* the node elements right after the last render
     issued |-> [search |-> 0, graph |-> 0, insight |-> 0, refresh |-> 0, build |-> 0],  \* requests issued
     graphFailed |-> FALSE,  \* whether a theme-scoped graph request has failed
     sinceInput |-> NoTimer, \* time since the last input event (NoTimer: none yet)
     lastInput |-> "",       \* the text of the last input event
     inputOnly |-> FALSE,    \* no other search control was used since that event
     cancelled |-> FALSE,    \* that event cancelled a timer that was pending
     timerSearches |-> 0,    \* searches the debounce timer issued since that event
     timerQuery |-> "",      \* the query of the last of them ...
     timerAt |-> NoTimer,    \* ... and the time since the input event it was issued at
     arrivedGen |-> 0,       \* the newest request a response has arrived for
     resizes |-> 0,          \* resize events so far
     restarts |-> 0,         \* restarts of the simulation by the last resize event ...
     burst |-> 0,            \* ... and by the resize events that came one right after another
     started |-> 0,          \* drag gestures started so far
     orphanCount |-> 0,      \* the orphanCount the last onRender was called with
     added |-> <<>>,         \* the entries addToRecent was called with, in order
     received |-> <<>>]      \* the data of the process messages received, in order

Did(h, op, arg) ==
    [h EXCEPT !.rep = (op = "filterByTheme" /\ h.op = op /\ h.arg = arg),
              !.op = op, !.arg = arg,
              !.posBefore = <<>>, !.dimBefore = DimFlags(NewKnowledgeGraph),
              !.restarts = 0, !.burst = 0]

NoRequests == [search |-> {}, graph |-> {}, insight |-> {}, refresh |-> {}, index |-> {}]

----------------------------------------------------------------------------
(* The browser extension: the popup's recent saves in chrome.storage.local *)

\* addToRecent keeps this many entries, and the popup displays this many
RecentLimit == 10
DisplayLimit == 5

\* Array.prototype.slice(0, n)
slice(s, n) == SubSeq(s, 1, Min(n, Len(s)))

\* Array.prototype.unshift(item), the array after it
unshift(s, item) == <<item>> \o s

\* the entry a save of the current page adds, and the one a PDF upload adds
PageItem(timestamp) == [title |-> "Page", url |-> "https://page", timestamp |-> timestamp]
PdfItem(timestamp) == [title |-> "doc.pdf", url |-> "local-pdf", timestamp |-> timestamp]

\* the .recent-item elements appended to #recent-list for a list of entries
RecentItems(saves) ==
    [i \in 1..Len(saves) |->
        [textContent |-> saves[i].title, title |-> saves[i].url, class |-> "recent-item"]]

\* the DOMContentLoaded handler: the first entries of recentSaves, or the
\* placeholder when there is none
ShowRecentOnLoad(recentSaves) ==
    IF Len(recentSaves) > 0
    THEN RecentItems(slice(recentSaves, DisplayLimit))
    ELSE <<[textContent |-> "No recent saves", title |-> "", class |-> "recent-item"]>>

\* showStatus
showStatus(p, message, type) ==
    [p EXCEPT !.status = [text |-> message, type |-> type, shown |-> TRUE]]

\* the popup before DOMContentLoaded, as it stands in every behaviour of the dashboard
ClosedPopup ==
    [currentTab |-> FALSE,
     saveBtnDisabled |-> FALSE,
     pdfBtnDisabled |-> FALSE,
     status |-> [text |-> "", type |-> "", shown |-> FALSE],
     recentList |-> <<>>,
     requests |-> {}]

\* the popup after its DOMContentLoaded handler has read recentSaves from
\* chrome.storage.local and the current tab
OpenedPopup(recentSaves) ==
    [ClosedPopup EXCEPT !.currentTab = TRUE,
                        !.recentList = ShowRecentOnLoad(recentSaves)]

\* chrome.storage.local: the value under recentSaves and the get and set
\* operations in flight, which the browser answers in the order they were issued
NoStorage == [recentSaves |-> <<>>, ops |-> <<>>]

\* recentSaves as n earlier saves of pages have left it, the most recent first
EarlierSaves(n) == [i \in 1..n |-> PageItem(n + 1 - i)]

\* addToRecent(item) up to its first await: chrome.storage.local.get is issued
addToRecent(st, caller, item) ==
    [st EXCEPT !.ops = Append(@, [op |-> "get", caller |-> caller, item |-> item,
                                  read |-> <<>>, value |-> <<>>])]

addToRecentTrim_Untrimmed(recent) == recent

\* addToRecent: recent.slice(0, 10)
addToRecentTrim(recent) == slice(recent, RecentLimit)

\* addToRecent after get has answered with the stored list: the item goes to
\* the front, the list is trimmed, and chrome.storage.local.set is issued
addToRecentGot(st) ==
    LET call == Head(st.ops)
        recent == unshift(st.recentSaves, call.item)
        trimmed == addToRecentTrim(recent)
    IN [st EXCEPT !.ops = Append(Tail(@), [call EXCEPT !.op = "set",
                                                       !.read = st.recentSaves,
                                                       !.value = trimmed])]

\* addToRecent after set has answered: #recent-list is rebuilt from trimmed
addToRecentSet(p, trimmed) ==
    [p EXCEPT !.recentList = RecentItems(slice(trimmed, DisplayLimit))]

----------------------------------------------------------------------------
(* The browser extension: the queue of the background service worker *)

\* count.toString() of updateBadge
CountText(count) == ToString(count)

\* updateBadge
updateBadge(b) ==
    [b EXCEPT !.badgeText = IF Len(b.processingQueue) > 0
                            THEN CountText(Len(b.processingQueue))
                            ELSE ""]

\* the service worker after its script has run
NewBackground ==
    [processingQueue |-> <<>>,
     isProcessing |-> FALSE,
     badgeText |-> "",        \* chrome.action's badge text
     pc |-> "idle",           \* idle, or where the handler running is:
                              \* processQueue (it is being called), processing (in its try block)
     item |-> Null,           \* processQueue's item while it is processing
     console |-> <<>>]        \* the lines written to the console

\* queueProcessing up to its call of processQueue
queueProcessing(b, data) ==
    [updateBadge([b EXCEPT !.processingQueue = Append(@, data)]) EXCEPT !.pc = "processQueue"]

processQueueEnter_NoShift(b) ==
    IF b.isProcessing \/ Len(b.processingQueue) = 0
    THEN [b EXCEPT !.pc = "idle"]
    ELSE [updateBadge([b EXCEPT !.isProcessing = TRUE,
                                !.item = Head(b.processingQueue)])
             EXCEPT !.pc = "processing"]

\* processQueue up to its try block: it returns when an item is being
\* processed or none is queued, and otherwise takes the first item
processQueueEnter(b) ==
    IF b.isProcessing \/ Len(b.processingQueue) = 0
    THEN [b EXCEPT !.pc = "idle"]
    ELSE [updateBadge([b EXCEPT !.isProcessing = TRUE,
                                !.item = Head(b.processingQueue),
                                !.processingQueue = Tail(@)])
             EXCEPT !.pc = "processing"]

processQueueFinally_StaysProcessing(b, threw) ==
    LET logged == [b EXCEPT !.console = Append(@, [level |-> "log", item |-> b.item])]
        caught == IF threw
                  THEN [logged EXCEPT !.console = Append(@, [level |-> "error", item |-> b.item])]
                  ELSE logged
    IN [updateBadge([caught EXCEPT !.item = Null])
           EXCEPT !.pc = "processQueue"]

\* processQueue from its try block on: the item is logged, an error is caught
\* and logged, and finally isProcessing is reset, the badge updated and
\* processQueue called for the next item
processQueueFinally(b, threw) ==
    LET logged == [b EXCEPT !.console = Append(@, [level |-> "log", item |-> b.item])]
        caught == IF threw
                  THEN [logged EXCEPT !.console = Append(@, [level |-> "error", item |-> b.item])]
                  ELSE logged
    IN [updateBadge([caught EXCEPT !.isProcessing = FALSE, !.item = Null])
           EXCEPT !.pc = "processQueue"]

----------------------------------------------------------------------------
(* The graph engine driven on its own: calls of its methods, and its ticks *)

InitGraph ==
    /\ kg = NewKnowledgeGraph
    /\ sidebar = NewSidebar
    /\ viewer = NewInsightViewer
    /\ app = [NewApp EXCEPT !.pc = "harness", !.loading = FALSE]
    /\ net = NoRequests
    /\ timers = {}
    /\ hist = NoHistory
    /\ popup = ClosedPopup
    /\ storage = NoStorage
    /\ background = NewBackground

\* the id lists highlightSearchResults is called with
IdLists == {<<>>, <<"a">>, <<"c", "z">>}

Render(name) ==
    /\ hist.renders < MaxRenders
    /\ LET r == render(kg, name)
       IN /\ kg' = r.kg
          /\ hist' = [Did(hist, "render", name) EXCEPT
                         !.threw = r.threw,
                         !.renders = @ + 1,
                         !.posBefore = Positions(kg),
                         !.baseline = r.kg.nodeElements,
                         !.orphanCount = IF r.threw THEN @ ELSE r.stats.orphanCount]
    /\ UNCHANGED <<sidebar, viewer, app, net, timers>>
    /\ UNCHANGED <<popup, storage, background>>

Tick ==
    /\ kg.simulation.running
    /\ \E move \in [DOMAIN kg.nodes -> Displacements] : kg' = tick(kg, move)
    /\ hist' = Did(hist, "tick", Null)
    /\ UNCHANGED <<sidebar, viewer, app, net, timers>>
    /\ UNCHANGED <<popup, storage, background>>

FilterByTheme(theme) ==
    /\ kg' = filterByTheme(kg, theme)
    /\ hist' = [Did(hist, "filterByTheme", theme) EXCEPT !.dimBefore = DimFlags(kg)]
    /\ UNCHANGED <<sidebar, viewer, app, net, timers>>
    /\ UNCHANGED <<popup, storage, background>>

ClearFilter ==
    /\ kg' = clearFilter(kg)
    /\ hist' = [Did(hist, "clearFilter", Null) EXCEPT !.dimBefore = DimFlags(kg)]
    /\ UNCHANGED <<sidebar, viewer, app, net, timers>>
    /\ UNCHANGED <<popup, storage, background>>

HighlightSearchResults(nodeIds) ==
    /\ kg' = highlightSearchResults(kg, nodeIds)
    /\ hist' = Did(hist, "highlightSearchResults", nodeIds)
    /\ UNCHANGED <<sidebar, viewer, app, net, timers>>
    /\ UNCHANGED <<popup, storage, background>>

\* a click on a node's circle: onNodeClick, and through the callback main.js
\* sets, the viewer's loadInsight
OnNodeClick(id) ==
    /\ id \in DOMAIN kg.nodeElements
    /\ kg.nodeClickCallback => hist.issued.insight < MaxInsightLoads
    /\ kg' = updateHighlight([kg EXCEPT !.highlightedNode = id])
    /\ IF kg.nodeClickCallback
       THEN /\ net' = [net EXCEPT !.insight = @ \cup
                          {[gen |-> hist.issued.insight + 1, id |-> id]}]
            /\ hist' = [Did(hist, "onNodeClick", id) EXCEPT !.issued.insight = @ + 1]
       ELSE /\ net' = net
            /\ hist' = Did(hist, "onNodeClick", id)
    /\ UNCHANGED <<sidebar, viewer, app, timers>>
    /\ UNCHANGED <<popup, storage, background>>

\* the visual state: renders, filter, highlight and clicks
NextGraph ==
    \/ \E name \in HarnessSnapshots : Render(name)
    \/ \E theme \in Themes : FilterByTheme(theme)
    \/ ClearFilter
    \/ \E nodeIds \in IdLists : HighlightSearchResults(nodeIds)
    \/ \E id \in {"a", "b", "c"} : OnNodeClick(id)

SpecGraph == InitGraph /\ [][NextGraph]_vars

\* a tick of this.simulation with the forces in balance
SettledTick ==
    /\ kg.simulation.running
    /\ kg' = tick(kg, [i \in DOMAIN kg.nodes |-> Still])
    /\ hist' = Did(hist, "tick", Null)
    /\ UNCHANGED <<sidebar, viewer, app, net, timers>>
    /\ UNCHANGED <<popup, storage, background>>

\* a tick of a simulation that an earlier render created
OtherTick ==
    /\ \E sim \in kg.otherSims : kg' = tickOther(kg, sim)
    /\ hist' = Did(hist, "otherTick", Null)
    /\ UNCHANGED <<sidebar, viewer, app, net, timers>>
    /\ UNCHANGED <<popup, storage, background>>

\* main.js's resize listener calls the engine's handler once app.graph is set
MainResizeListener == app.pc # "config"

\* the window is resized to size (or a resize event comes with the size
\* unchanged): the listener the constructor added runs, then main.js's
WindowResize(size) ==
    /\ hist.resizes < MaxResizes
    /\ LET r1 == onWindowResize([kg EXCEPT !.client = size])
           r2 == IF MainResizeListener THEN onWindowResize(r1.kg)
                 ELSE [kg |-> r1.kg, restarted |-> FALSE]
           n == (IF r1.restarted THEN 1 ELSE 0) + (IF r2.restarted THEN 1 ELSE 0)
       IN /\ kg' = r2.kg
          /\ hist' = [Did(hist, "resize", Null) EXCEPT
                         !.resizes = @ + 1,
                         !.restarts = n,
                         !.burst = hist.burst + n]
    /\ UNCHANGED <<sidebar, viewer, app, net, timers>>
    /\ UNCHANGED <<popup, storage, background>>

\* a pointer goes down on the group of node id
DragStart(touch, id) ==
    /\ hist.started < MaxGestures
    /\ id \in DOMAIN kg.nodeElements
    /\ \A ge \in kg.gestures : ge.touch # touch
    /\ kg' = dragStart(kg, [touch |-> touch, node |-> id, gen |-> kg.elemGen])
    /\ hist' = [Did(hist, "dragStart", id) EXCEPT !.started = @ + 1]
    /\ UNCHANGED <<sidebar, viewer, app, net, timers>>
    /\ UNCHANGED <<popup, storage, background>>

\* the pointer of an active gesture moves to p
DragMove(ge, p) ==
    /\ ge \in kg.gestures
    /\ kg' = dragMove(kg, ge, p)
    /\ hist' = Did(hist, "dragMove", ge.node)
    /\ UNCHANGED <<sidebar, viewer, app, net, timers>>
    /\ UNCHANGED <<popup, storage, background>>

\* the pointer of an active gesture goes up
DragEnd(ge) ==
    /\ ge \in kg.gestures
    /\ kg' = dragEnd(kg, ge)
    /\ hist' = Did(hist, "dragEnd", ge.node)
    /\ UNCHANGED <<sidebar, viewer, app, net, timers>>
    /\ UNCHANGED <<popup, storage, background>>

\* the snapshots the simulation is rendered with
SimSnapshots == {"triple", "loop"}

\* the simulation under resize events
NextResize ==
    \/ \E name \in SimSnapshots : Render(name)
    \/ SettledTick
    \/ OtherTick
    \/ \E size \in ViewportSizes : WindowResize(size)

SpecResize == InitGraph /\ [][NextResize]_vars

\* the simulation under drag gestures
NextDrag ==
    \/ \E name \in SimSnapshots : Render(name)
    \/ SettledTick
    \/ OtherTick
    \/ \E touch \in Touches, id \in {"a", "b", "c"} : DragStart(touch, id)
    \/ \E ge \in kg.gestures, p \in Pointers : DragMove(ge, p)
    \/ \E ge \in kg.gestures : DragEnd(ge)

\* every timer that is running gets its turn (d3's timers run once per frame)
SpecDrag == InitGraph /\ [][NextDrag]_vars /\ WF_vars(SettledTick) /\ WF_vars(OtherTick)

\* the layout: renders and the ticks of the simulation
NextLayout ==
    \/ \E name \in HarnessSnapshots : Render(name)
    \/ Tick

SpecLayout == InitGraph /\ [][NextLayout]_vars

----------------------------------------------------------------------------
(* The node radius: the circles of two nodes of any connection counts *)

\* the engine holds two nodes, as after a render of a snapshot whose edges
\* give them c1 and c2 endpoints, and has drawn nothing yet
InitRadius ==
    /\ \E c1, c2 \in 0..MaxConnections :
           kg = [NewKnowledgeGraph EXCEPT
                    !.nodes = [renderedNodes(SnapLoop) EXCEPT
                                  ![1].connections = c1, ![2].connections = c2]]
    /\ sidebar = NewSidebar
    /\ viewer = NewInsightViewer
    /\ app = [NewApp EXCEPT !.pc = "harness", !.loading = FALSE]
    /\ net = NoRequests
    /\ timers = {}
    /\ hist = NoHistory
    /\ popup = ClosedPopup
    /\ storage = NoStorage
    /\ background = NewBackground

\* renderNodes(): each circle gets r = getNodeRadius(d)
RenderNodes ==
    /\ DOMAIN kg.nodeElements = {}
    /\ kg' = renderNodes(kg)
    /\ hist' = Did(hist, "renderNodes", Null)
    /\ UNCHANGED <<sidebar, viewer, app, net, timers>>
    /\ UNCHANGED <<popup, storage, background>>

NextRadius == RenderNodes

SpecRadius == InitRadius /\ [][NextRadius]_vars

----------------------------------------------------------------------------
(* The dashboard: bootstrap, user events, network completions and timers *)

Init ==
    /\ kg = NewKnowledgeGraph
    /\ sidebar = NewSidebar
    /\ viewer = NewInsightViewer
    /\ app = NewApp
    /\ net = NoRequests
    /\ timers = {}
    /\ hist = NoHistory
    /\ popup = ClosedPopup
    /\ storage = NoStorage
    /\ background = NewBackground

\* initialize() has constructed the sidebar, the viewer and the graph
Constructed == app.pc \in {"themes", "graph", "ready", "failed"}

\* the bootstrap's render and MaxRenders more
RendersLeft == hist.renders < 1 + MaxRenders

\* initialize(): /api/config has answered with demo_mode true (demo), or
\* answered otherwise or failed (demoMode stays false); the three objects are
\* constructed, the sidebar's constructor calls loadIndexStatus(), and
\* initializeData() awaits loadThemes()
ConfigResponse(demo) ==
    /\ app.pc = "config"
    /\ app' = [app EXCEPT !.pc = "themes", !.demoMode = demo]
    /\ sidebar' = Sidebar(demo)
    /\ net' = [net EXCEPT !.index = @ \cup {"status"}]
    /\ hist' = Did(hist, "configResponse", IF demo THEN "demo" ELSE "live")
    /\ UNCHANGED <<kg, viewer, timers>>
    /\ UNCHANGED <<popup, storage, background>>

\* Sidebar.loadThemes(): /api/vault/themes has answered or failed; then
\* initializeData() fetches the graph
ThemesResponse(outcome) ==
    /\ app.pc = "themes"
    /\ sidebar' = loadThemes(sidebar, outcome)
    /\ app' = [app EXCEPT !.pc = "graph"]
    /\ hist' = Did(hist, "themesResponse", IF outcome = "thrown" THEN "failed" ELSE outcome)
    /\ UNCHANGED <<kg, viewer, net, timers>>
    /\ UNCHANGED <<popup, storage, background>>

\* initializeData(): /api/vault/graph has answered or failed; on success the
\* snapshot is rendered and initialize() goes on to setupEventListeners(), on
\* failure (also a render that throws) initialize()'s catch shows the error;
\* then showLoading(false), and window.app is set
GraphResponse(ok, name) ==
    /\ app.pc = "graph"
    /\ LET r == render(kg, name)
       IN IF ok /\ ~r.threw
          THEN /\ kg' = setupGraphListeners(r.kg)
               /\ sidebar' = setupSidebarListeners(sidebar)
               /\ viewer' = viewer
               /\ app' = [updateGraphStats(app, r.stats) EXCEPT
                             !.graphData = name, !.pc = "ready",
                             !.loading = FALSE, !.windowApp = TRUE]
               /\ hist' = [Did(hist, "graphResponse", "ok") EXCEPT
                              !.renders = @ + 1, !.baseline = r.kg.nodeElements]
          ELSE /\ kg' = IF ok THEN r.kg ELSE kg
               /\ sidebar' = sidebar
               /\ viewer' = appShowError(viewer, "Failed to load dashboard")
               /\ app' = [app EXCEPT !.graphData = IF ok THEN name ELSE @,
                                     !.pc = "failed",
                                     !.loading = FALSE, !.windowApp = TRUE]
               /\ hist' = [Did(hist, "graphResponse", "failed") EXCEPT
                              !.renders = IF ok THEN @ + 1 ELSE @]
    /\ UNCHANGED <<net, timers>>
    /\ UNCHANGED <<popup, storage, background>>

\* a click on a theme item or on "All Themes": Sidebar.selectTheme, and through
\* the callback main.js sets, the filter and the reload of the graph
SelectTheme(theme) ==
    /\ Constructed
    /\ sidebar.themeItems
    /\ theme # Null => theme \in sidebar.themes
    /\ sidebar.onThemeClick =>
           IF theme # Null THEN hist.issued.graph < MaxGraphLoads ELSE RendersLeft
    /\ sidebar' = hideSearchResults([sidebar EXCEPT !.selectedTheme = theme,
                                                    !.searchQuery = "",
                                                    !.clearActive = FALSE])
    /\ IF ~sidebar.onThemeClick
       THEN /\ UNCHANGED <<kg, net>>
            /\ hist' = [Did(hist, "selectTheme", theme) EXCEPT !.inputOnly = FALSE]
       ELSE IF theme # Null
       THEN /\ kg' = filterByTheme(kg, theme)
            /\ net' = [net EXCEPT !.graph = @ \cup
                          {[gen |-> hist.issued.graph + 1, theme |-> theme]}]
            /\ hist' = [Did(hist, "selectTheme", theme) EXCEPT
                           !.inputOnly = FALSE, !.issued.graph = @ + 1]
       ELSE /\ kg' = render(clearFilter(kg), app.graphData).kg
            /\ net' = net
            /\ hist' = [Did(hist, "selectTheme", theme) EXCEPT
                           !.inputOnly = FALSE, !.renders = @ + 1,
                           !.baseline = kg'.nodeElements]
    /\ UNCHANGED <<viewer, app, timers>>
    /\ UNCHANGED <<popup, storage, background>>

\* loadGraphByTheme(): the theme-scoped graph request has answered or failed
ThemeGraphResponse(req, ok) ==
    /\ req \in net.graph
    /\ ok => RendersLeft
    /\ net' = [net EXCEPT !.graph = @ \ {req}]
    /\ IF ok
       THEN LET r == render(kg, GraphOf(req.theme))
            IN /\ kg' = r.kg
               /\ app' = IF r.threw THEN app ELSE updateGraphStats(app, r.stats)
               /\ hist' = [Did(hist, "themeGraphResponse", req.theme) EXCEPT
                              !.renders = @ + 1, !.baseline = r.kg.nodeElements]
       ELSE /\ UNCHANGED <<kg, app>>
            /\ hist' = [Did(hist, "themeGraphFailed", req.theme) EXCEPT
                           !.graphFailed = TRUE]
    /\ UNCHANGED <<sidebar, viewer, timers>>
    /\ UNCHANGED <<popup, storage, background>>

\* InsightViewer.loadInsight(): the insight request has answered or failed
InsightResponse(req, ok) ==
    /\ req \in net.insight
    /\ net' = [net EXCEPT !.insight = @ \ {req}]
    /\ viewer' = IF ok THEN viewerRender(viewer, req.id)
                 ELSE viewerShowError(viewer, "Failed to load insight")
    /\ hist' = Did(hist, IF ok THEN "insightResponse" ELSE "insightFailed", req.id)
    /\ UNCHANGED <<kg, sidebar, app, timers>>
    /\ UNCHANGED <<popup, storage, background>>

\* a click on #close-insight: InsightViewer.clear
ViewerClear ==
    /\ Constructed
    /\ viewer' = viewerClear(viewer)
    /\ hist' = Did(hist, "clear", Null)
    /\ UNCHANGED <<kg, sidebar, app, net, timers>>
    /\ UNCHANGED <<popup, storage, background>>

\* the bootstrap with demo mode off
Bootstrap ==
    \/ ConfigResponse(FALSE)
    \/ \E outcome \in ThemeOutcomes : ThemesResponse(outcome)
    \/ \E ok \in BOOLEAN : GraphResponse(ok, "full")

Next ==
    \/ Bootstrap
    \/ \E theme \in Themes \cup {Null} : SelectTheme(theme)
    \/ \E req \in net.graph, ok \in BOOLEAN : ThemeGraphResponse(req, ok)
    \/ \E id \in {"a", "b", "c"} : OnNodeClick(id)
    \/ \E req \in net.insight, ok \in BOOLEAN : InsightResponse(req, ok)
    \/ ViewerClear

Spec == Init /\ [][Next]_vars

----------------------------------------------------------------------------
(* The refresh: the button, and the requests refresh() awaits in turn *)

\* a click on #refresh-btn: refresh() up to the POST of /api/vault/refresh
RefreshClick ==
    /\ Constructed
    /\ sidebar.refreshBtnShown
    /\ hist.issued.refresh < MaxRefreshes
    /\ sidebar' = refreshBegin(sidebar)
    /\ net' = [net EXCEPT !.refresh = @ \cup
                  {[gen |-> hist.issued.refresh + 1, stage |-> "post"]}]
    /\ hist' = [Did(hist, "refreshClick", Null) EXCEPT !.issued.refresh = @ + 1]
    /\ UNCHANGED <<kg, viewer, app, timers>>
    /\ UNCHANGED <<popup, storage, background>>

\* the POST has answered (whatever its status) or thrown; if window.app is
\* set, initializeData() is called and awaits loadThemes()
RefreshPosted(req, ok) ==
    /\ req \in net.refresh
    /\ req.stage = "post"
    /\ IF ok /\ app.windowApp
       THEN /\ net' = [net EXCEPT !.refresh = (@ \ {req}) \cup {[req EXCEPT !.stage = "themes"]}]
            /\ sidebar' = sidebar
            /\ hist' = Did(hist, "refreshPosted", Null)
       ELSE /\ net' = [net EXCEPT !.refresh = @ \ {req}]
            /\ sidebar' = refreshEnd(sidebar, ok)
            /\ hist' = Did(hist, IF ok THEN "refreshDone" ELSE "refreshFailed", Null)
    /\ UNCHANGED <<kg, viewer, app, timers>>
    /\ UNCHANGED <<popup, storage, background>>

\* initializeData(), called by refresh(): loadThemes() has returned and the
\* graph is fetched
RefreshThemes(req, outcome) ==
    /\ req \in net.refresh
    /\ req.stage = "themes"
    /\ net' = [net EXCEPT !.refresh = (@ \ {req}) \cup {[req EXCEPT !.stage = "graph"]}]
    /\ sidebar' = loadThemes(sidebar, outcome)
    /\ hist' = Did(hist, "refreshThemes", IF outcome = "thrown" THEN "failed" ELSE outcome)
    /\ UNCHANGED <<kg, viewer, app, timers>>
    /\ UNCHANGED <<popup, storage, background>>

\* initializeData(), called by refresh(): /api/vault/graph has answered or
\* failed; on success the snapshot is stored and rendered; then refresh() ends
RefreshGraph(req, ok) ==
    /\ req \in net.refresh
    /\ req.stage = "graph"
    /\ ok => RendersLeft
    /\ net' = [net EXCEPT !.refresh = @ \ {req}]
    /\ LET r == render(kg, "full")
           done == ok /\ ~r.threw
       IN /\ kg' = IF ok THEN r.kg ELSE kg
          /\ app' = IF done THEN [updateGraphStats(app, r.stats) EXCEPT !.graphData = "full"]
                     ELSE IF ok THEN [app EXCEPT !.graphData = "full"]
                     ELSE app
          /\ sidebar' = refreshEnd(sidebar, done)
          /\ hist' = IF ok
                     THEN [Did(hist, IF done THEN "refreshDone" ELSE "refreshFailed", Null)
                              EXCEPT !.renders = @ + 1, !.baseline = r.kg.nodeElements]
                     ELSE Did(hist, "refreshFailed", Null)
    /\ UNCHANGED <<viewer, timers>>
    /\ UNCHANGED <<popup, storage, background>>

\* the timer refresh() sets after a success: the status is blanked
RefreshStatusTimer ==
    /\ sidebar.statusTimers > 0
    /\ sidebar' = [sidebar EXCEPT !.statusTimers = @ - 1,
                                  !.refreshStatus.text = "",
                                  !.refreshStatus.success = FALSE]
    /\ hist' = Did(hist, "refreshStatusTimer", Null)
    /\ UNCHANGED <<kg, viewer, app, net, timers>>
    /\ UNCHANGED <<popup, storage, background>>

NextRefresh ==
    \/ Bootstrap
    \/ \E theme \in Themes \cup {Null} : SelectTheme(theme)
    \/ \E req \in net.graph, ok \in BOOLEAN : ThemeGraphResponse(req, ok)
    \/ RefreshClick
    \/ \E req \in net.refresh, ok \in BOOLEAN : RefreshPosted(req, ok)
    \/ \E req \in net.refresh, outcome \in ThemeOutcomes : RefreshThemes(req, outcome)
    \/ \E req \in net.refresh, ok \in BOOLEAN : RefreshGraph(req, ok)
    \/ RefreshStatusTimer

SpecRefresh == Init /\ [][NextRefresh]_vars

----------------------------------------------------------------------------
(* The search: input events, the debounce timer, requests and responses *)

PerformSearch_NoEmptyCheck(s, h, byTimer) ==
    /\ h.issued.search < MaxSearches
    /\ kg' = kg
    /\ sidebar' = s
    /\ net' = [net EXCEPT !.search = @ \cup
                  {[gen |-> h.issued.search + 1,
                    query |-> s.searchQuery,
                    theme |-> s.selectedTheme,
                    semantic |-> s.semantic]}]
    /\ hist' = IF byTimer
               THEN [h EXCEPT !.issued.search = @ + 1,
                              !.timerSearches = @ + 1,
                              !.timerQuery = s.searchQuery,
                              !.timerAt = h.sinceInput]
               ELSE [h EXCEPT !.issued.search = @ + 1]
    /\ UNCHANGED <<popup, storage, background>>

\* performSearch() on sidebar s with history h: an empty query clears the
\* highlight and hides the results; any other query issues a request
PerformSearch(s, h, byTimer) ==
    IF s.searchQuery = ""
    THEN /\ kg' = onSearch(s, kg, TRUE, <<>>)
         /\ sidebar' = hideSearchResults(s)
         /\ net' = net
         /\ hist' = h
    ELSE /\ h.issued.search < MaxSearches
         /\ kg' = kg
         /\ sidebar' = s
         /\ net' = [net EXCEPT !.search = @ \cup
                       {[gen |-> h.issued.search + 1,
                         query |-> s.searchQuery,
                         theme |-> s.selectedTheme,
                         semantic |-> s.semantic]}]
         /\ hist' = IF byTimer
                    THEN [h EXCEPT !.issued.search = @ + 1,
                                   !.timerSearches = @ + 1,
                                   !.timerQuery = s.searchQuery,
                                   !.timerAt = h.sinceInput]
                    ELSE [h EXCEPT !.issued.search = @ + 1]

\* the input handler of #search-input
InputEvent(text) ==
    /\ Constructed
    /\ text # "" => hist.issued.search < MaxSearches
    /\ LET s1 == [sidebar EXCEPT !.searchQuery = text, !.clearActive = (text # "")]
           s2 == IF text = "" THEN hideSearchResults(s1) ELSE s1
           cleared == clearTimeout(timers, sidebar.searchTimeout)
       IN IF text # ""
          THEN /\ timers' = cleared \cup {DebounceDelay}
               /\ sidebar' = [s2 EXCEPT !.searchTimeout = DebounceDelay]
               /\ kg' = kg
          ELSE /\ timers' = cleared
               /\ sidebar' = [s2 EXCEPT !.searchTimeout = NoTimer]
               /\ kg' = onSearch(sidebar, kg, TRUE, <<>>)
    /\ hist' = [Did(hist, "input", text) EXCEPT
                   !.sinceInput = 0, !.lastInput = text, !.inputOnly = TRUE,
                   !.cancelled = (sidebar.searchTimeout \in timers),
                   !.timerSearches = 0, !.timerQuery = "", !.timerAt = NoTimer]
    /\ UNCHANGED <<viewer, app, net>>
    /\ UNCHANGED <<popup, storage, background>>

\* TimeStep passes; a timer that is due fires before time goes on
Advance ==
    /\ Constructed
    /\ \A t \in timers : t >= TimeStep
    /\ timers # {}
    /\ timers' = {t - TimeStep : t \in timers}
    /\ sidebar' = [sidebar EXCEPT !.searchTimeout =
                      IF @ \in timers THEN @ - TimeStep ELSE NoTimer]
    /\ hist' = [Did(hist, "advance", Null) EXCEPT
                   !.sinceInput = IF @ = NoTimer THEN @
                                  ELSE Min(@ + TimeStep, DebounceDelay)]
    /\ UNCHANGED <<kg, viewer, app, net>>
    /\ UNCHANGED <<popup, storage, background>>

\* a debounce timer is due: its callback calls performSearch()
SearchTimerFires ==
    /\ 0 \in timers
    /\ timers' = timers \ {0}
    /\ PerformSearch([sidebar EXCEPT !.searchTimeout = IF @ = 0 THEN NoTimer ELSE @],
                     Did(hist, "timer", Null), TRUE)
    /\ UNCHANGED <<viewer, app>>
    /\ UNCHANGED <<popup, storage, background>>

\* the change handler of #semantic-toggle
SemanticToggle ==
    /\ Constructed
    /\ LET s == [sidebar EXCEPT !.semantic = ~@]
           h == [Did(hist, "semanticToggle", Null) EXCEPT !.inputOnly = FALSE]
       IN IF s.searchQuery # ""
          THEN PerformSearch(s, h, FALSE)
          ELSE sidebar' = s /\ hist' = h /\ UNCHANGED <<kg, net>>
    /\ UNCHANGED <<viewer, app, timers>>
    /\ UNCHANGED <<popup, storage, background>>

\* the click handler of #search-clear
SearchClearClick ==
    /\ Constructed
    /\ sidebar' = hideSearchResults([sidebar EXCEPT !.searchQuery = "",
                                                    !.clearActive = FALSE])
    /\ kg' = onSearch(sidebar, kg, TRUE, <<>>)
    /\ hist' = [Did(hist, "searchClear", Null) EXCEPT !.inputOnly = FALSE]
    /\ UNCHANGED <<viewer, app, net, timers>>
    /\ UNCHANGED <<popup, storage, background>>

\* performSearch(): the search request has answered with results
SearchResponse(req, results) ==
    /\ req \in net.search
    /\ net' = [net EXCEPT !.search = @ \ {req}]
    /\ sidebar' = renderSearchResults([sidebar EXCEPT !.searchResults = results], results)
    /\ kg' = onSearch(sidebar, kg, FALSE, results)
    /\ hist' = [Did(hist, "searchResponse", results) EXCEPT
                   !.arrivedGen = IF req.gen > @ THEN req.gen ELSE @]
    /\ UNCHANGED <<viewer, app, timers>>
    /\ UNCHANGED <<popup, storage, background>>

\* performSearch(): fetch, or the decoding of the answer, threw before anything
\* was assigned; the catch logs
SearchFails(req) ==
    /\ req \in net.search
    /\ net' = [net EXCEPT !.search = @ \ {req}]
    /\ sidebar' = performSearchCatch(sidebar)
    /\ hist' = Did(hist, "searchFailed", Null)
    /\ UNCHANGED <<kg, viewer, app, timers>>
    /\ UNCHANGED <<popup, storage, background>>

\* the bootstrap the search runs after: the themes are loaded or not
NextSearch ==
    \/ ConfigResponse(FALSE)
    \/ \E outcome \in {"ok", "thrown"} : ThemesResponse(outcome)
    \/ \E ok \in BOOLEAN : GraphResponse(ok, "full")
    \/ \E text \in Queries : InputEvent(text)
    \/ Advance
    \/ SearchTimerFires
    \/ SemanticToggle
    \/ SearchClearClick
    \/ \E req \in net.search, results \in ResultLists : SearchResponse(req, results)
    \/ \E req \in net.search : SearchFails(req)

SpecSearch == Init /\ [][NextSearch]_vars

----------------------------------------------------------------------------
(* The result cards: a search while or after the bootstrap, and clicks *)

\* a click on the card of result id: if window.app is set,
\* KnowledgeEngineApp.loadInsight, which has the viewer load the insight
CardClick(id) ==
    /\ sidebar.resultsShown
    /\ id \in Range(sidebar.resultCards)
    /\ app.windowApp => hist.issued.insight < MaxInsightLoads
    /\ IF app.windowApp
       THEN /\ net' = [net EXCEPT !.insight = @ \cup
                          {[gen |-> hist.issued.insight + 1, id |-> id]}]
            /\ hist' = [Did(hist, "cardClick", id) EXCEPT !.issued.insight = @ + 1]
       ELSE /\ net' = net
            /\ hist' = Did(hist, "cardClick", id)
    /\ UNCHANGED <<kg, sidebar, viewer, app, timers>>
    /\ UNCHANGED <<popup, storage, background>>

NextCards ==
    \/ ConfigResponse(FALSE)
    \/ \E outcome \in {"ok", "thrown"} : ThemesResponse(outcome)
    \/ \E ok \in BOOLEAN : GraphResponse(ok, "full")
    \/ \E text \in Queries : InputEvent(text)
    \/ Advance
    \/ SearchTimerFires
    \/ \E req \in net.search, results \in ResultLists : SearchResponse(req, results)
    \/ \E id \in {"a", "b"} : CardClick(id)
    \/ \E req \in net.insight, ok \in BOOLEAN : InsightResponse(req, ok)

SpecCards == Init /\ [][NextCards]_vars

----------------------------------------------------------------------------
(* The configuration: demo mode or not, the index status and its button *)

\* loadIndexStatus(): /api/vault/embedding-index/status has answered or failed
IndexStatusResponse(outcome) ==
    /\ "status" \in net.index
    /\ net' = [net EXCEPT !.index = @ \ {"status"}]
    /\ sidebar' = loadIndexStatus(sidebar, outcome)
    /\ hist' = Did(hist, "indexStatus", outcome)
    /\ UNCHANGED <<kg, viewer, app, timers>>
    /\ UNCHANGED <<popup, storage, background>>

\* a click on #build-index-btn, which a hidden or disabled button does not
\* get: buildIndex() up to the POST of /api/vault/embedding-index/build
BuildIndexClick ==
    /\ Constructed
    /\ sidebar.buildIndexBtnShown
    /\ ~sidebar.buildIndexBtnDisabled
    /\ hist.issued.build < MaxBuilds
    /\ sidebar' = buildIndexBegin(sidebar)
    /\ net' = [net EXCEPT !.index = @ \cup {"build"}]
    /\ hist' = [Did(hist, "buildIndexClick", Null) EXCEPT !.issued.build = @ + 1]
    /\ UNCHANGED <<kg, viewer, app, timers>>
    /\ UNCHANGED <<popup, storage, background>>

\* buildIndex(): the POST has answered or thrown; after an answer, a query
\* that is typed in is searched again
BuildIndexResponse(ok) ==
    /\ "build" \in net.index
    /\ LET s == buildIndexEnd(sidebar, ok)
           h == Did(hist, "buildIndexResponse", IF ok THEN "ok" ELSE "failed")
           n == [net EXCEPT !.index = @ \ {"build"}]
       IN IF ok /\ s.searchQuery # ""
          THEN /\ h.issued.search < MaxSearches
               /\ kg' = kg
               /\ sidebar' = s
               /\ net' = [n EXCEPT !.search = @ \cup
                             {[gen |-> h.issued.search + 1,
                               query |-> s.searchQuery,
                               theme |-> s.selectedTheme,
                               semantic |-> s.semantic]}]
               /\ hist' = [h EXCEPT !.issued.search = @ + 1]
          ELSE /\ sidebar' = s
               /\ net' = n
               /\ hist' = h
               /\ kg' = kg
    /\ UNCHANGED <<viewer, app, timers>>
    /\ UNCHANGED <<popup, storage, background>>

NextConfig ==
    \/ \E demo \in BOOLEAN : ConfigResponse(demo)
    \/ \E outcome \in ThemeOutcomes : ThemesResponse(outcome)
    \/ \E ok \in BOOLEAN : GraphResponse(ok, "full")
    \/ \E outcome \in IndexOutcomes : IndexStatusResponse(outcome)
    \/ BuildIndexClick
    \/ \E ok \in BOOLEAN : BuildIndexResponse(ok)
    \/ RefreshClick
    \/ \E req \in net.refresh, ok \in BOOLEAN : RefreshPosted(req, ok)
    \/ \E req \in net.refresh, outcome \in ThemeOutcomes : RefreshThemes(req, outcome)
    \/ \E req \in net.refresh, ok \in BOOLEAN : RefreshGraph(req, ok)
    \/ RefreshStatusTimer

SpecConfig == Init /\ [][NextConfig]_vars

----------------------------------------------------------------------------
(* Properties of the search *)

\* C1: a search response that arrives after the response of a request issued
\* later is discarded: the sidebar's searchResults, the result cards and the
\* highlight of the graph stay as they are.
C1_StaleResponseDiscarded ==
    [][\A req \in net.search \ net'.search :
          (hist'.op = "searchResponse" /\ req.gen < hist.arrivedGen)
          => /\ sidebar'.searchResults = sidebar.searchResults
             /\ sidebar'.resultCards = sidebar.resultCards
             /\ sidebar'.resultsShown = sidebar.resultsShown
             /\ kg' = kg
      ]_vars

\* C2: after an input event with non-empty text, and while no other search
\* control is used, the only timer pending is the one that event set, no
\* search is issued before DebounceDelay has passed since the event, and the
\* one search the timer then issues carries the text of that event; a timer an
\* earlier event set never issues a search.
C2_DebounceIssuesOneSearch ==
    (hist.sinceInput # NoTimer /\ hist.inputOnly /\ hist.lastInput # "")
    => /\ hist.timerSearches <= 1
       /\ hist.timerSearches = 1
          => /\ hist.timerQuery = hist.lastInput
             /\ hist.timerAt = DebounceDelay
             /\ timers = {}
       /\ hist.timerSearches = 0
          => timers = {DebounceDelay - hist.sinceInput}
       /\ sidebar.searchQuery = hist.lastInput

\* "alp" then "alpha" within the delay: the second event cancelled the timer of
\* the first, and the timer of the second has issued the search for "alpha"
C2_Witness ==
    /\ hist.op = "timer"
    /\ hist.inputOnly
    /\ hist.cancelled
    /\ hist.lastInput = "alpha"
    /\ hist.timerSearches = 1
    /\ \E req \in net.search : req.query = "alpha" /\ req.gen = hist.issued.search

\* C18: a search request that fails leaves the sidebar's searchResults, the
\* result cards and the graph (its highlight included) as they were.
C18_SearchFailureNonDestructive ==
    [][hist'.op = "searchFailed"
       => /\ sidebar'.searchResults = sidebar.searchResults
          /\ sidebar'.resultCards = sidebar.resultCards
          /\ sidebar'.resultsShown = sidebar.resultsShown
          /\ kg' = kg
      ]_vars

\* a search has failed while results of an earlier one are shown as cards and
\* highlighted in the graph
C18_Witness ==
    /\ hist.op = "searchFailed"
    /\ app.pc = "ready"
    /\ sidebar.searchResults = <<"b", "a">>
    /\ sidebar.resultCards = <<"b", "a">>
    /\ sidebar.resultsShown
    /\ kg.nodeElements["a"].circles[1].stroke = "#ffd700"

----------------------------------------------------------------------------
(* Properties of the graph engine *)

\* the number of edges of a snapshot that have id as an endpoint
IncidentEdges(snapshot, id) ==
    Cardinality({i \in DOMAIN snapshot.edges :
                    snapshot.edges[i].source = id \/ snapshot.edges[i].target = id})

\* C3: after render(snapshot), every node's connections is the number of the
\* snapshot's edges that have the node as source or as target (a self-loop and
\* each duplicate edge counting as one edge each).
C3_ConnectionsCountIncidentEdges ==
    hist.op = "render" =>
        \A i \in DOMAIN kg.nodes :
            kg.nodes[i].connections = IncidentEdges(Snapshot(kg.graph), kg.nodes[i].id)

\* C4: right after a render whose snapshot holds every node the engine held
\* before, each of those nodes has the position it had just before the render.
C4_ReingestPreservesPositions ==
    (/\ hist.op = "render"
     /\ DOMAIN hist.posBefore # {}
     /\ DOMAIN hist.posBefore \subseteq DOMAIN Positions(kg))
    => \A id \in DOMAIN hist.posBefore : Positions(kg)[id] = hist.posBefore[id]

\* the attributes of a circle the highlight writes
Look(c) == [stroke |-> c.stroke, strokeWidth |-> c.strokeWidth, r |-> c.r,
            opacity |-> c.opacity, filter |-> c.filter]

Looks(elements) ==
    [id \in DOMAIN elements |->
        [k \in DOMAIN elements[id].circles |-> Look(elements[id].circles[k])]]

\* C5: after highlightSearchResults([]) every circle has the stroke, stroke
\* width, radius, opacity and filter it had right after the last render, and a
\* second highlightSearchResults([]) changes nothing.
C5_EmptyHighlightRestoresBaseline ==
    (hist.op = "highlightSearchResults" /\ hist.arg = <<>>)
    => /\ Looks(kg.nodeElements) = Looks(hist.baseline)
       /\ highlightSearchResults(kg, <<>>) = kg

\* C7: in every state a node and its label are dimmed iff a theme is current
\* and the node's theme differs from it, and a link is dimmed iff a theme is
\* current and neither endpoint has it.
C7_DimStateInvariant ==
    LET other(d) == kg.currentTheme # Null /\ d.theme # kg.currentTheme
    IN /\ \A id \in DOMAIN kg.nodeElements :
              kg.nodeElements[id].dimmed <=> other(kg.nodeElements[id].datum)
       /\ \A id \in DOMAIN kg.labelElements :
              kg.labelElements[id].dimmed <=> other(kg.labelElements[id].datum)
       /\ \A i \in DOMAIN kg.linkElements :
              kg.linkElements[i].dimmed <=>
                  (other(kg.linkElements[i].source) /\ other(kg.linkElements[i].target))

\* C11: render never throws: with an edge whose source or target is no node
\* of the snapshot, the snapshot's nodes and its other edges are drawn.
C11_DanglingEdgeOmitted ==
    hist.op = "render"
    => /\ ~hist.threw
       /\ DOMAIN kg.nodeElements = NodeIdsOf(Snapshot(kg.graph))
       /\ Len(kg.linkElements) =
              Cardinality({i \in DOMAIN Snapshot(kg.graph).edges :
                  /\ Snapshot(kg.graph).edges[i].source \in NodeIdsOf(Snapshot(kg.graph))
                  /\ Snapshot(kg.graph).edges[i].target \in NodeIdsOf(Snapshot(kg.graph))})

NothingDimmed(flags) ==
    /\ \A id \in DOMAIN flags.nodes : ~flags.nodes[id]
    /\ \A id \in DOMAIN flags.labels : ~flags.labels[id]
    /\ \A i \in DOMAIN flags.links : ~flags.links[i]

\* C8: after clearFilter() no node, label or link is dimmed, as on a snapshot
\* that was never filtered, whatever filter was applied before; and a second
\* filterByTheme(t) leaves every dimmed flag as the first one set it.
C8_FilterReversibleIdempotent ==
    /\ hist.op = "clearFilter" => NothingDimmed(DimFlags(kg))
    /\ (hist.op = "filterByTheme" /\ hist.rep) => DimFlags(kg) = hist.dimBefore

\* a filter dimmed a node, a label and a link, and clearFilter() has acted
C8_Witness ==
    /\ hist.op = "clearFilter"
    /\ \E id \in DOMAIN hist.dimBefore.nodes : hist.dimBefore.nodes[id]
    /\ \E id \in DOMAIN hist.dimBefore.labels : hist.dimBefore.labels[id]
    /\ \E i \in DOMAIN hist.dimBefore.links : hist.dimBefore.links[i]

----------------------------------------------------------------------------
(* Properties of the coordinator *)

\* C6: once no graph request is outstanding (and none has failed), the graph
\* shows the snapshot of the theme selected in the sidebar, the full snapshot
\* when none is selected.
C6_GraphShowsSelectedTheme ==
    (/\ app.pc = "ready"
     /\ kg.currentTheme = sidebar.selectedTheme  \* the selection was made after the wiring
     /\ net.graph = {}
     /\ ~hist.graphFailed)
    => kg.graph = GraphOf(sidebar.selectedTheme)

\* C9: when the initial graph load has failed after the themes were loaded,
\* the coordinator's callbacks are set all the same: theme selections, search
\* results and node clicks are still handled.
C9_WiringSurvivesGraphLoadFailure ==
    (app.pc = "failed" /\ sidebar.themeItems)
    => (sidebar.onThemeClick /\ sidebar.onSearch /\ kg.nodeClickCallback /\ app.windowApp)

\* C10: a failed graph load (at bootstrap or theme-scoped) leaves the viewer
\* and the sidebar's refresh status as they were; a failed theme load changes
\* nothing but the sidebar's status message; a failed search changes nothing
\* of the viewer, the graph or the coordinator's indicators.
C10_FailureWritesOwnIndicator ==
    [][/\ ((hist'.op = "graphResponse" /\ hist'.arg = "failed")
           \/ hist'.op = "themeGraphFailed")
          => (viewer' = viewer /\ sidebar'.refreshStatus = sidebar.refreshStatus)
       /\ (hist'.op = "themesResponse" /\ hist'.arg = "failed")
          => /\ viewer' = viewer
             /\ kg' = kg
             /\ app'.graphStats = app.graphStats
             /\ [sidebar' EXCEPT !.refreshStatus = sidebar.refreshStatus] = sidebar
       /\ hist'.op = "searchFailed"
          => (viewer' = viewer /\ kg' = kg /\ app'.graphStats = app.graphStats)
      ]_vars

\* C12: when a refresh has completed with success, the graph shows the
\* snapshot of the theme selected in the sidebar (the full one when none is
\* selected) and that theme is still the engine's filter.
C12_RefreshReloadsCurrentSnapshot ==
    (/\ hist.op = "refreshDone"
     /\ app.pc = "ready"
     /\ net.graph = {}
     /\ ~hist.graphFailed
     /\ kg.currentTheme = sidebar.selectedTheme)
    => kg.graph = GraphOf(sidebar.selectedTheme)

----------------------------------------------------------------------------
(* Properties of the simulation *)

\* C13: a resize event with the width and height the engine already has leaves
\* the simulation as it is (no restart, same alpha, same centre force), and a
\* resize event with another width or height restarts the simulation once,
\* although two listeners call the handler.
C13_ResizeOnlyOnChange ==
    [][hist'.op = "resize"
       => IF kg'.client.width = kg.width /\ kg'.client.height = kg.height
          THEN hist'.restarts = 0 /\ kg'.simulation = kg.simulation
          ELSE kg.simulation.exists
               => /\ hist'.restarts = 1
                  /\ kg'.simulation.center = kg'.client
      ]_vars

\* a resize event with unchanged dimensions has come while the simulation was
\* at full energy and both listeners were in place
C13_Witness ==
    /\ hist.op = "resize"
    /\ hist.restarts = 0
    /\ MainResizeListener
    /\ kg.simulation.running
    /\ kg.simulation.alpha = MaxTicks
    /\ kg.client = [width |-> kg.width, height |-> kg.height]

\* C14: resize events that come one right after another restart the simulation
\* once at most.
C14_ResizeCoalesced ==
    hist.burst <= 1

\* C15: a node is pinned exactly while a drag gesture on it is active, and the
\* simulation's alphaTarget is raised exactly while some gesture is active.
C15_DragStateMachine ==
    /\ \A i \in DOMAIN kg.nodes :
          kg.nodes[i].pinned <=> \E ge \in kg.gestures : ge.node = kg.nodes[i].id
    /\ kg.simulation.exists
       => ((kg.simulation.alphaTarget = WarmAlpha) <=> (kg.gestures # {}))

\* the pin of the node id: whether this.nodes holds the node, and its fx, fy
Pin(g, id) ==
    IF \E i \in DOMAIN g.nodes : g.nodes[i].id = id
    THEN [held |-> TRUE, pinned |-> NodeById(g.nodes, id).pinned,
          fx |-> NodeById(g.nodes, id).fx, fy |-> NodeById(g.nodes, id).fy]
    ELSE [held |-> FALSE, pinned |-> FALSE, fx |-> 0, fy |-> 0]

\* C16: while a gesture on a node is active, a step that is not one of the drag
\* listeners leaves the node's pin as it is.
C16_DragOwnsPin ==
    [][\A ge \in kg.gestures \cap kg'.gestures :
          hist'.op \notin {"dragStart", "dragMove", "dragEnd"}
          => Pin(kg', ge.node) = Pin(kg, ge.node)
      ]_vars

\* C17: if from some point on no gesture is active, then from some point on no
\* simulation the engine has created is ticking.
C17_PhysicsTerminates ==
    <>[](kg.gestures = {}) => <>[](~kg.simulation.running /\ kg.otherSims = {})

----------------------------------------------------------------------------
(* Properties of the viewer *)

\* C19: an insight request that fails leaves the graph and the sidebar as they
\* were, and the viewer shows the error: its message visible, the detail hidden.
C19_InsightFailureContained ==
    [][hist'.op = "insightFailed"
       => /\ kg' = kg
          /\ sidebar' = sidebar
          /\ viewer'.emptyShown
          /\ viewer'.emptyText = "Failed to load insight"
          /\ ~viewer'.detailShown
      ]_vars

\* an insight request has failed while an earlier insight was on display and
\* a theme filter was applied
C19_Witness ==
    /\ hist.op = "insightFailed"
    /\ viewer.currentInsight # Null
    /\ kg.currentTheme # Null

\* C20: after clear() the viewer is as it was constructed: no current insight,
\* the detail hidden, the content empty, the placeholder shown with the text
\* it had at first.
C20_ClearRestoresPlaceholder ==
    hist.op = "clear" =>
        /\ viewer.currentInsight = NewInsightViewer.currentInsight
        /\ viewer.detailShown = NewInsightViewer.detailShown
        /\ viewer.content = NewInsightViewer.content
        /\ viewer.emptyShown = NewInsightViewer.emptyShown
        /\ viewer.emptyText = NewInsightViewer.emptyText

----------------------------------------------------------------------------
\* C21: with demo mode on in the configuration, the refresh button and the
\* build-index button are hidden in every state, also after the index status
\* has loaded with any outcome, and no refresh and no index build is requested
C21_DemoModeDisablesMutations ==
    app.demoMode =>
        /\ ~sidebar.refreshBtnShown
        /\ ~sidebar.buildIndexBtnShown
        /\ hist.issued.refresh = 0
        /\ hist.issued.build = 0
        /\ net.refresh = {}
        /\ "build" \notin net.index

\* demo mode, and the index status has just answered that no index is built
C21_Witness ==
    /\ app.demoMode
    /\ hist.op = "indexStatus"
    /\ hist.arg = "notBuilt"

----------------------------------------------------------------------------
\* the nodes drawn emphasised: a circle of theirs has the gold stroke
Emphasized(g) ==
    {id \in DOMAIN g.nodeElements :
        \E k \in DOMAIN g.nodeElements[id].circles :
            g.nodeElements[id].circles[k].stroke = "#ffd700"}

\* the dimmed flags a filter on theme (Null: none) asks for
DimmedFor(g, theme) ==
    LET other(d) == theme # Null /\ d.theme # theme
    IN [nodes |-> [id \in DOMAIN g.nodeElements |-> other(g.nodeElements[id].datum)],
        labels |-> [id \in DOMAIN g.labelElements |-> other(g.labelElements[id].datum)],
        links |-> [i \in DOMAIN g.linkElements |->
                      other(g.linkElements[i].source) /\ other(g.linkElements[i].target)]]

\* C22: highlight and theme-dim are independent: a filterByTheme or a
\* clearFilter sets the dimmed flags by its own theme alone and changes no
\* circle's look; a highlightSearchResults emphasises exactly the shown nodes
\* of its own id list and changes no dimmed flag and not the current theme.
C22_HighlightDimIndependent ==
    [][/\ hist'.op \in {"filterByTheme", "clearFilter"} =>
            /\ DimFlags(kg') = DimmedFor(kg, kg'.currentTheme)
            /\ kg'.currentTheme = hist'.arg
            /\ Looks(kg'.nodeElements) = Looks(kg.nodeElements)
       /\ hist'.op = "highlightSearchResults" =>
            /\ Emphasized(kg') = Range(hist'.arg) \cap DOMAIN kg.nodeElements
            /\ DimFlags(kg') = DimFlags(kg)
            /\ kg'.currentTheme = kg.currentTheme]_vars

\* a highlight has emphasised a node while a theme filter dims another, and
\* a node was emphasised when that filter was called
C22_Witness ==
    /\ hist.op = "highlightSearchResults"
    /\ Emphasized(kg) # {}
    /\ kg.currentTheme # Null
    /\ \E id \in DOMAIN kg.nodeElements : kg.nodeElements[id].dimmed

----------------------------------------------------------------------------
\* the data bound to the node groups and labels, by id
ElementData(g) ==
    [nodes |-> [id \in DOMAIN g.nodeElements |-> g.nodeElements[id].datum],
     labels |-> [id \in DOMAIN g.labelElements |-> g.labelElements[id].datum]]

----------------------------------------------------------------------------
\* C24: after a render(s) that returned, the engine's nodes are s's nodes and
\* its links s's edges, and the elements drawn correspond to them one to one:
\* one group with one circle and one label for every node, one line for every
\* edge, and nothing else.
C24_RenderReplacesWorkingSet ==
    (hist.op = "render" /\ ~hist.threw) =>
        LET s == Snapshot(kg.graph)
        IN /\ {kg.nodes[i].id : i \in DOMAIN kg.nodes} = NodeIdsOf(s)
           /\ Len(kg.nodes) = Len(s.nodes)
           /\ kg.links = s.edges
           /\ DOMAIN kg.nodeElements = NodeIdsOf(s)
           /\ DOMAIN kg.labelElements = NodeIdsOf(s)
           /\ Len(kg.linkElements) = Len(s.edges)
           /\ \A id \in DOMAIN kg.nodeElements : Len(kg.nodeElements[id].circles) = 1

----------------------------------------------------------------------------
\* the nodes drawn as orphans: every circle of theirs is dashed
DrawnAsOrphans(g) ==
    {id \in DOMAIN g.nodeElements :
        /\ g.nodeElements[id].circles # <<>>
        /\ \A k \in DOMAIN g.nodeElements[id].circles :
               g.nodeElements[id].circles[k].dasharray = "4,4"}

\* C25: after render(snapshot), the nodes drawn as orphans are exactly the
\* snapshot's nodes that no edge has as an endpoint, and the orphanCount given
\* to onRender is their number.
C25_OrphansDrawnAndCounted ==
    hist.op = "render" =>
        LET s == Snapshot(kg.graph)
            lone == {id \in NodeIdsOf(s) : IncidentEdges(s, id) = 0}
        IN /\ DrawnAsOrphans(kg) = lone
           /\ hist.orphanCount = Cardinality(lone)

----------------------------------------------------------------------------
\* the radius drawn for the node with this id, in units of 1/ConnectionCap px
RadiusDrawn(g, id) == g.nodeElements[id].circles[1].r

\* C26: the radius is monotonic non-decreasing in the connection count, at
\* least 6 and at most 25, and the same for every count of 15 or more.
C26_RadiusMonotoneBounded ==
    hist.op = "renderNodes" =>
        \A i, j \in DOMAIN kg.nodes :
            LET ci == kg.nodes[i].connections
                cj == kg.nodes[j].connections
                ri == RadiusDrawn(kg, kg.nodes[i].id)
                rj == RadiusDrawn(kg, kg.nodes[j].id)
            IN /\ ci <= cj => ri <= rj
               /\ 6 * ConnectionCap <= ri
               /\ ri <= 25 * ConnectionCap
               /\ (ci >= 15 /\ cj >= 15) => ri = rj

\* two circles are drawn, one for a node of fewer than 15 connections and
\* one for a node of more than 15
C26_Witness ==
    /\ hist.op = "renderNodes"
    /\ \E i, j \in DOMAIN kg.nodes :
           /\ kg.nodes[i].connections < 15
           /\ kg.nodes[j].connections > 15
           /\ RadiusDrawn(kg, kg.nodes[i].id) < RadiusDrawn(kg, kg.nodes[j].id)

----------------------------------------------------------------------------
\* C27: when the themes request fails (an error answer, or fetch throws),
\* in the bootstrap or in a refresh, loadThemes returns without throwing: the
\* theme list is as it was before, the sidebar's status shows the error, and
\* the graph is requested next.
C27_ThemeFailureIsolated ==
    [][(hist'.op \in {"themesResponse", "refreshThemes"} /\ hist'.arg # "ok") =>
            /\ sidebar'.themes = sidebar.themes
            /\ sidebar'.themeItems = sidebar.themeItems
            /\ sidebar'.refreshStatus.text = "Error loading themes"
            /\ sidebar'.refreshStatus.error
            /\ hist'.op = "themesResponse" => app'.pc = "graph"
            /\ hist'.op = "refreshThemes" =>
                   \E req \in net'.refresh : req.stage = "graph"]_vars

----------------------------------------------------------------------------
\* C28: when the query becomes empty, by an input event with no text or by
\* the clear button, the search callback (if set) is called with null, so that
\* nothing stays emphasised, the results panel is hidden and no request is
\* issued; a debounce timer that was pending then fires on the empty query and
\* issues no request either: no search request ever carries an empty query.
C28_EmptyQueryNoSearch ==
    [][/\ ((hist'.op = "input" /\ hist'.arg = "") \/ hist'.op = "searchClear") =>
            /\ sidebar'.searchQuery = ""
            /\ ~sidebar'.resultsShown
            /\ sidebar'.resultCards = <<>>
            /\ sidebar.onSearch => Emphasized(kg') = {}
            /\ net'.search = net.search
       /\ (hist'.op = "timer" /\ sidebar.searchQuery = "") =>
            /\ ~sidebar'.resultsShown
            /\ sidebar.onSearch => Emphasized(kg') = {}
            /\ net'.search = net.search
       /\ \A req \in net'.search : req.query # ""]_vars

\* the clear button emptied the query while a debounce timer was pending,
\* and that timer has fired
C28_Witness ==
    /\ hist.op = "timer"
    /\ sidebar.searchQuery = ""
    /\ sidebar.onSearch

----------------------------------------------------------------------------
\* C29: in every state in which result cards are displayed, also while the
\* bootstrap still awaits its loads, a click on a card requests the viewer to
\* load the insight of that card's id.
C29_CardClickLoadsInsight ==
    [][hist'.op = "cardClick" =>
            \E req \in net'.insight :
                /\ req \notin net.insight
                /\ req.id = hist'.arg]_vars

----------------------------------------------------------------------------
\* C30: after a loadInsight that succeeded, the source row is shown iff the
\* insight displayed has a source_url other than 'local-pdf' and 'unknown',
\* and the link in it then points to that insight's source_url.
C30_SourceLinkFollowsInsight ==
    hist.op = "insightResponse" =>
        LET url == SourceUrl(viewer.currentInsight)
        IN /\ viewer.sourceRowShown <=> HasSource(url)
           /\ viewer.sourceRowShown => viewer.sourceLink = url

----------------------------------------------------------------------------
(* The viewer's cross-references: processWikilinks on the content's markup *)

\* the content is a sequence of items: characters, and after the rewriting
\* also links
Char(c) == [kind |-> "char", ch |-> c, target |-> <<>>, text |-> <<>>]
Link(target, text) == [kind |-> "link", ch |-> "", target |-> target, text |-> text]
Chars(str) == [i \in DOMAIN str |-> Char(str[i])]

\* String.prototype.trim on a sequence of characters
RECURSIVE trim(_)
trim(str) ==
    IF str = <<>> THEN <<>>
    ELSE IF Head(str) = " " THEN trim(Tail(str))
    ELSE IF str[Len(str)] = " " THEN trim(SubSeq(str, 1, Len(str) - 1))
    ELSE str

\* the end of the longest run of characters outside stop that starts at i
\* (i - 1: there is none), as a greedy [^...]+ takes it
RunEnd(c, i, stop) ==
    CHOOSE j \in (i - 1)..Len(c) :
        /\ \A k \in i..j : c[k].kind = "char" /\ c[k].ch \notin stop
        /\ (j = Len(c) \/ c[j + 1].kind # "char" \/ c[j + 1].ch \in stop)

IsChar(c, i, ch) == i \in DOMAIN c /\ c[i].kind = "char" /\ c[i].ch = ch

\* the match of /\[\[([^\]|]+)(?:\|([^\]]+))?\]\]/ at position i, if any
MatchAt(c, i) ==
    LET te == RunEnd(c, i + 2, {"]", "|"})
        de == RunEnd(c, te + 2, {"]"})
        none == [ok |-> FALSE, target |-> <<>>, display |-> <<>>, next |-> i + 1]
        str(a, b) == [k \in 1..(b - a + 1) |-> c[a + k - 1].ch]
    IN IF ~(IsChar(c, i, "[") /\ IsChar(c, i + 1, "[") /\ te >= i + 2) THEN none
       ELSE IF IsChar(c, te + 1, "]") /\ IsChar(c, te + 2, "]")
       THEN [ok |-> TRUE, target |-> str(i + 2, te), display |-> <<>>, next |-> te + 3]
       ELSE IF /\ IsChar(c, te + 1, "|") /\ de >= te + 2
               /\ IsChar(c, de + 1, "]") /\ IsChar(c, de + 2, "]")
       THEN [ok |-> TRUE, target |-> str(i + 2, te), display |-> str(te + 2, de),
             next |-> de + 3]
       ELSE none

\* contentText.replace(pattern, ...) from position i on: every match, from
\* the left, becomes <a href="javascript:app.loadInsight('target')">text</a>
RECURSIVE replaceFrom(_, _)
replaceFrom(c, i) ==
    IF i > Len(c) THEN <<>>
    ELSE LET m == MatchAt(c, i)
         IN IF m.ok
            THEN <<Link(trim(m.target),
                        trim(IF m.display # <<>> THEN m.display ELSE m.target))>>
                 \o replaceFrom(c, m.next)
            ELSE <<c[i]>> \o replaceFrom(c, i + 1)

\* processWikilinks()
processWikilinks(v) == [v EXCEPT !.content = replaceFrom(v.content, 1)]

\* what following a link does: the browser evaluates the script
\* app.loadInsight('target'), where the first apostrophe after the opening one
\* ends the string literal; with an apostrophe in the target the script does
\* not parse and nothing is called
Activate(link) ==
    IF \E k \in DOMAIN link.target : link.target[k] = "'"
    THEN [called |-> FALSE, id |-> <<>>]
    ELSE [called |-> TRUE, id |-> link.target]

\* the characters of targets and of display texts
TargetChars == {"x", " ", "'"}
DisplayChars == {"x", " "}
Strings(chars, n) == UNION {[1..k -> chars] : k \in 0..n}

\* the contents rendered: text, a cross-reference with or without display
\* text, text
WikiInputs ==
    [pre : {<<>>, <<"x">>},
     target : Strings(TargetChars, MaxTarget) \ {<<>>},
     display : Strings(DisplayChars, MaxDisplay),
     post : {<<>>, <<"x">>}]

WikiMarkup(in) ==
    in.pre \o <<"[", "[">> \o in.target
           \o (IF in.display # <<>> THEN <<"|">> \o in.display ELSE <<>>)
           \o <<"]", "]">> \o in.post

\* render() has set the content's markup and is about to call processWikilinks()
InitWiki ==
    /\ \E in \in WikiInputs :
           /\ viewer = [NewInsightViewer EXCEPT !.currentInsight = "a",
                                                !.content = Chars(WikiMarkup(in)),
                                                !.sourceLink = SourceUrl("a")]
           /\ hist = [NoHistory EXCEPT !.arg = in]
    /\ kg = NewKnowledgeGraph
    /\ sidebar = NewSidebar
    /\ app = [NewApp EXCEPT !.pc = "harness", !.loading = FALSE]
    /\ net = NoRequests
    /\ timers = {}
    /\ popup = ClosedPopup
    /\ storage = NoStorage
    /\ background = NewBackground

\* render(), from processWikilinks() on
ProcessWikilinks ==
    /\ hist.op = "none"
    /\ viewer' = [processWikilinks(viewer) EXCEPT !.emptyShown = FALSE,
                                                  !.detailShown = TRUE]
    /\ hist' = [hist EXCEPT !.op = "processWikilinks"]
    /\ UNCHANGED <<kg, sidebar, app, net, timers>>
    /\ UNCHANGED <<popup, storage, background>>

NextWiki == ProcessWikilinks

SpecWiki == InitWiki /\ [][NextWiki]_vars

\* C31: a [[target]] in the content becomes a link whose activation calls
\* loadInsight(target) and whose text is target, a [[target|display]] a link
\* that calls loadInsight(target) with text display (both trimmed), and the
\* text around it is left as it was.
C31_WikilinksRewritten ==
    hist.op = "processWikilinks" =>
        LET in == hist.arg
            at == Len(in.pre) + 1
            text == trim(IF in.display # <<>> THEN in.display ELSE in.target)
        IN /\ Len(viewer.content) = Len(in.pre) + 1 + Len(in.post)
           /\ SubSeq(viewer.content, 1, Len(in.pre)) = Chars(in.pre)
           /\ SubSeq(viewer.content, at + 1, Len(viewer.content)) = Chars(in.post)
           /\ viewer.content[at].kind = "link"
           /\ viewer.content[at].text = text
           /\ Activate(viewer.content[at]) = [called |-> TRUE, id |-> trim(in.target)]

----------------------------------------------------------------------------
(* The zoom: the buttons, the wheel and the reset, on scales in thousandths *)

MinScale == 500
MaxScale == 5000
IdentityScale == 1000
ZoomInPercent == 130
ZoomOutPercent == 77

\* the factors a wheel or pinch step scales by, in percent
WheelPercents == {50, 90, 110, 200}

\* the scales the svg's zoom state may hold when the reset's transition is
\* over (the identity's) or when a gesture interrupts it on its way, where the
\* interpolation may have zoomed out below the extent
ResetScales == {250, IdentityScale}

scaleBy_Unclamped(g, percent) ==
    LET k == (g.zoom * percent) \div 100
    IN [g EXCEPT !.zoom = k, !.transformScale = k]

\* zoomBehavior.scaleBy and the wheel: the new scale is kept within
\* scaleExtent([0.5, 5]), and the zoom listener applies it to g.graph-main
scaleBy(g, percent) ==
    LET k == Min(MaxScale, IF (g.zoom * percent) \div 100 < MinScale THEN MinScale
                           ELSE (g.zoom * percent) \div 100)
    IN [g EXCEPT !.zoom = k, !.transformScale = k]

\* resetView(): the transform of a new d3.zoom() is called on the svg; the
\* svg's zoom state changes, and the events go to the new behaviour, which has
\* no listener: g.graph-main keeps its transform
resetView(g, k) == [g EXCEPT !.zoom = k]

ZoomIn ==
    /\ kg' = scaleBy(kg, ZoomInPercent)
    /\ hist' = Did(hist, "zoomIn", Null)
    /\ UNCHANGED <<sidebar, viewer, app, net, timers>>
    /\ UNCHANGED <<popup, storage, background>>

ZoomOut ==
    /\ kg' = scaleBy(kg, ZoomOutPercent)
    /\ hist' = Did(hist, "zoomOut", Null)
    /\ UNCHANGED <<sidebar, viewer, app, net, timers>>
    /\ UNCHANGED <<popup, storage, background>>

Wheel(percent) ==
    /\ kg' = scaleBy(kg, percent)
    /\ hist' = Did(hist, "wheel", Null)
    /\ UNCHANGED <<sidebar, viewer, app, net, timers>>
    /\ UNCHANGED <<popup, storage, background>>

ResetView(k) ==
    /\ kg' = resetView(kg, k)
    /\ hist' = Did(hist, "resetView", Null)
    /\ UNCHANGED <<sidebar, viewer, app, net, timers>>
    /\ UNCHANGED <<popup, storage, background>>

NextZoom ==
    \/ ZoomIn
    \/ ZoomOut
    \/ \E percent \in WheelPercents : Wheel(percent)
    \/ \E k \in ResetScales : ResetView(k)

SpecZoom == InitGraph /\ [][NextZoom]_vars

-----------------------------------------------------------------------------
(* Properties of overlapping insight requests *)

\* C34: the viewer shows the insight requested last: when the response of a
\* later insight request has just been displayed and the response of an earlier
\* request, the last one outstanding, arrives after it, the viewer's
\* currentInsight and the content it displays stay those of the later request.
C34_LastRequestWins ==
    [][\A req \in net.insight \ net'.insight :
          (/\ hist.op = "insightResponse"
           /\ hist'.op = "insightResponse"
           /\ req.gen < hist.issued.insight
           /\ net'.insight = {})
          => /\ viewer'.currentInsight = viewer.currentInsight
             /\ viewer'.content = viewer.content
      ]_vars

-----------------------------------------------------------------------------
(* Properties of the search state against the graph's highlight *)

\* C35: whenever the sidebar's query is empty and no debounce timer is
\* pending, the results panel is hidden with no result cards and no node of
\* the graph is drawn emphasised; a response that arrives after the query was
\* cleared changes none of this.
C35_ClearedSearchStaysCleared ==
    (Constructed /\ sidebar.searchQuery = "" /\ timers = {})
    => /\ ~sidebar.resultsShown
       /\ Emphasized(kg) = {}

-----------------------------------------------------------------------------
(* Properties of the circles of the node groups *)

\* C36: at any time, after any sequence of renders, every node group that is
\* displayed holds exactly one circle element.
C36_OneCirclePerNode ==
    \A id \in DOMAIN kg.nodeElements : Len(kg.nodeElements[id].circles) = 1

-----------------------------------------------------------------------------
(* Properties of the graph-stats indicator *)

\* C37: once the dashboard is ready and no graph request is outstanding, the
\* node and connection counts #graph-stats displays are the numbers of nodes
\* and links of the snapshot the graph is showing.
C37_StatsDescribeRenderedSnapshot ==
    (app.pc = "ready" /\ net.graph = {} /\ net.refresh = {} /\ ~hist.threw)
    => /\ app.graphStats.shown
       /\ app.graphStats.nodeCount = Len(kg.nodes)
       /\ app.graphStats.linkCount = Len(kg.links)

-----------------------------------------------------------------------------
(* The popup of the extension: saves of the page, uploads, and addToRecent *)

\* the dashboard is not involved
Dashboard == <<kg, sidebar, viewer, app, net, timers>>

InitDashboard ==
    /\ kg = NewKnowledgeGraph
    /\ sidebar = NewSidebar
    /\ viewer = NewInsightViewer
    /\ app = [NewApp EXCEPT !.pc = "harness", !.loading = FALSE]
    /\ net = NoRequests
    /\ timers = {}

\* the popup has been opened with any list of earlier saves in the storage
InitPopup ==
    /\ InitDashboard
    /\ hist = NoHistory
    /\ \E n \in 0..RecentLimit :
          /\ storage = [NoStorage EXCEPT !.recentSaves = EarlierSaves(n)]
          /\ popup = OpenedPopup(EarlierSaves(n))
    /\ background = NewBackground

\* saves and uploads started so far
SavesStarted == Len(hist.added) + Cardinality(popup.requests)

\* the timestamp of the next entry, later than that of every earlier one
Now == RecentLimit + Len(hist.added) + 1

\* the click handler of #save-btn, up to the request it awaits
SaveClick(theme) ==
    /\ popup.currentTab
    /\ ~popup.saveBtnDisabled
    /\ SavesStarted < MaxSaves
    /\ popup' = IF theme = ""
                THEN showStatus(popup, "Please select a theme", "error")
                ELSE [showStatus(popup, "Processing article...", "processing")
                         EXCEPT !.saveBtnDisabled = TRUE,
                                !.requests = @ \cup {"process"}]
    /\ hist' = Did(hist, "saveClick", theme)
    /\ UNCHANGED <<storage, background>>
    /\ UNCHANGED Dashboard

\* the click handler of #save-btn: /process has answered (ok), or it answered
\* with an error status or a call threw; on success addToRecent is awaited
ProcessResponse(ok) ==
    /\ "process" \in popup.requests
    /\ IF ok
       THEN /\ popup' = [popup EXCEPT !.requests = @ \ {"process"}]
            /\ storage' = addToRecent(storage, "save", PageItem(Now))
            /\ hist' = [Did(hist, "processResponse", "ok") EXCEPT
                           !.added = Append(@, PageItem(Now))]
       ELSE /\ popup' = [showStatus(popup, "Error", "error")
                            EXCEPT !.saveBtnDisabled = FALSE,
                                   !.requests = @ \ {"process"}]
            /\ storage' = storage
            /\ hist' = Did(hist, "processResponse", "failed")
    /\ UNCHANGED background
    /\ UNCHANGED Dashboard

\* the change handler of #file-input, which #pdf-btn opens, up to the upload
FileChosen(theme) ==
    /\ ~popup.pdfBtnDisabled
    /\ SavesStarted < MaxSaves
    /\ popup' = IF theme = ""
                THEN showStatus(popup, "Please select a theme", "error")
                ELSE [showStatus(popup, "Processing PDF...", "processing")
                         EXCEPT !.pdfBtnDisabled = TRUE,
                                !.requests = @ \cup {"upload"}]
    /\ hist' = Did(hist, "fileChosen", theme)
    /\ UNCHANGED <<storage, background>>
    /\ UNCHANGED Dashboard

\* the change handler of #file-input: /upload-pdf has answered or failed
UploadResponse(ok) ==
    /\ "upload" \in popup.requests
    /\ IF ok
       THEN /\ popup' = [popup EXCEPT !.requests = @ \ {"upload"}]
            /\ storage' = addToRecent(storage, "pdf", PdfItem(Now))
            /\ hist' = [Did(hist, "uploadResponse", "ok") EXCEPT
                           !.added = Append(@, PdfItem(Now))]
       ELSE /\ popup' = [showStatus(popup, "Error", "error")
                            EXCEPT !.pdfBtnDisabled = FALSE,
                                   !.requests = @ \ {"upload"}]
            /\ storage' = storage
            /\ hist' = Did(hist, "uploadResponse", "failed")
    /\ UNCHANGED background
    /\ UNCHANGED Dashboard

\* chrome.storage.local.get has answered the addToRecent that is first in line
StorageGetAnswers ==
    /\ storage.ops # <<>>
    /\ Head(storage.ops).op = "get"
    /\ storage' = addToRecentGot(storage)
    /\ hist' = Did(hist, "storageGet", Head(storage.ops).caller)
    /\ UNCHANGED <<popup, background>>
    /\ UNCHANGED Dashboard

\* chrome.storage.local.set has written the list and answered: addToRecent
\* rebuilds #recent-list and returns to the handler that awaits it
StorageSetAnswers ==
    /\ storage.ops # <<>>
    /\ Head(storage.ops).op = "set"
    /\ LET call == Head(storage.ops)
           shown == addToRecentSet(popup, call.value)
       IN /\ storage' = [storage EXCEPT !.recentSaves = call.value, !.ops = Tail(@)]
          /\ popup' = IF call.caller = "save"
                      THEN [showStatus(shown, "Saved successfully!", "success")
                               EXCEPT !.saveBtnDisabled = FALSE]
                      ELSE [showStatus(shown, "PDF processed successfully!", "success")
                               EXCEPT !.pdfBtnDisabled = FALSE]
          /\ hist' = Did(hist, "storageSet", call.caller)
    /\ UNCHANGED background
    /\ UNCHANGED Dashboard

NextPopup ==
    \/ \E theme \in {"", "A"} : SaveClick(theme)
    \/ \E ok \in BOOLEAN : ProcessResponse(ok)
    \/ \E theme \in {"", "A"} : FileChosen(theme)
    \/ \E ok \in BOOLEAN : UploadResponse(ok)
    \/ StorageGetAnswers
    \/ StorageSetAnswers

SpecPopup == InitPopup /\ [][NextPopup]_vars

\* C33: recentSaves never holds more than RecentLimit entries and #recent-list
\* shows its first DisplayLimit entries; and when an addToRecent writes the
\* list it read, the entry it adds becomes the first, the entries before it
\* follow in their order, and the entries beyond RecentLimit, the oldest, are
\* dropped.
C33_RecentSavesBoundedOrdered ==
    [][/\ Len(storage'.recentSaves) <= RecentLimit
       /\ Len(storage'.recentSaves) > 0 =>
             /\ Len(popup'.recentList) = Min(DisplayLimit, Len(storage'.recentSaves))
             /\ \A i \in DOMAIN popup'.recentList :
                   /\ popup'.recentList[i].textContent = storage'.recentSaves[i].title
                   /\ popup'.recentList[i].title = storage'.recentSaves[i].url
       /\ (hist'.op = "storageSet" /\ Head(storage.ops).read = storage.recentSaves)
          => /\ storage'.recentSaves[1] = Head(storage.ops).item
             /\ Len(storage'.recentSaves) = Min(Len(storage.recentSaves) + 1, RecentLimit)
             /\ \A i \in 2..Len(storage'.recentSaves) :
                   storage'.recentSaves[i] = storage.recentSaves[i - 1]
      ]_vars

\* C33: an addToRecent has written a full list: the oldest entry was dropped
C33_Witness ==
    /\ hist.op = "storageSet"
    /\ Len(storage.recentSaves) = RecentLimit
    /\ storage.recentSaves[1] = hist.added[Len(hist.added)]
    /\ storage.recentSaves[RecentLimit].timestamp > 1
    /\ Len(popup.recentList) = DisplayLimit

\* C40: no entry is lost when calls of addToRecent overlap: once every
\* addToRecent has returned, each of the last RecentLimit entries added is in
\* recentSaves.
C40_NoLostRecentSave ==
    storage.ops = <<>> =>
        \A i \in DOMAIN hist.added :
            i > Len(hist.added) - RecentLimit
            => \E k \in DOMAIN storage.recentSaves : storage.recentSaves[k] = hist.added[i]

-----------------------------------------------------------------------------
(* The service worker of the extension: process messages and the queue *)

InitQueue ==
    /\ InitDashboard
    /\ hist = NoHistory
    /\ popup = ClosedPopup
    /\ storage = NoStorage
    /\ background = NewBackground

\* the onMessage listener with action 'process': queueProcessing(request.data),
\* up to its call of processQueue; a listener runs when no other code does
OnProcessMessage(data) ==
    /\ background.pc = "idle"
    /\ Len(hist.received) < MaxMessages
    /\ background' = queueProcessing(background, data)
    /\ hist' = [Did(hist, "processMessage", data) EXCEPT !.received = Append(@, data)]
    /\ UNCHANGED <<popup, storage>>
    /\ UNCHANGED Dashboard

\* processQueue has been called, by queueProcessing or by its own finally block
ProcessQueueCalled ==
    /\ background.pc = "processQueue"
    /\ background' = processQueueEnter(background)
    /\ hist' = Did(hist, "processQueue", Null)
    /\ UNCHANGED <<popup, storage>>
    /\ UNCHANGED Dashboard

\* processQueue's try block runs, with an error or without, then its finally block
ProcessItem(threw) ==
    /\ background.pc = "processing"
    /\ background' = processQueueFinally(background, threw)
    /\ hist' = Did(hist, "processItem", IF threw THEN "threw" ELSE "ok")
    /\ UNCHANGED <<popup, storage>>
    /\ UNCHANGED Dashboard

NextQueue ==
    \/ \E data \in {"a", "b"} : OnProcessMessage(data)
    \/ ProcessQueueCalled
    \/ \E threw \in BOOLEAN : ProcessItem(threw)

SpecQueue == InitQueue /\ [][NextQueue]_vars

\* a handler that has started runs to its end
SpecQueueFair ==
    /\ InitQueue
    /\ [][NextQueue]_vars
    /\ WF_vars(ProcessQueueCalled)
    /\ WF_vars(\E threw \in BOOLEAN : ProcessItem(threw))

\* the items processQueue has finished with, in the order of the console's lines
Processed(b) ==
    LET logs == SelectSeq(b.console, LAMBDA line : line.level = "log")
    IN [i \in 1..Len(logs) |-> logs[i].item]

\* C38: at most one item is being processed, and only while isProcessing is
\* set; the items finished, the item in process and the items queued are, in
\* this order, the data of the process messages in the order they were
\* received: every item is taken in its turn, none twice and none dropped.
C38_QueueOneAtATimeFifo ==
    /\ background.isProcessing <=> background.item # Null
    /\ background.isProcessing <=> background.pc = "processing"
    /\ hist.received =
          Processed(background)
          \o (IF background.item # Null THEN <<background.item>> ELSE <<>>)
          \o background.processingQueue

\* C38: two messages with different data were received and both items processed
C38_Witness ==
    /\ background.pc = "idle"
    /\ Len(hist.received) = 2
    /\ hist.received[1] # hist.received[2]
    /\ Processed(background) = hist.received

\* C39: whenever the queue is not empty the badge text is its length in
\* decimal; whenever the queue is empty and nothing is being processed the
\* badge text is empty; and again and again, also after an item whose
\* processing raised an error, the queue is empty and isProcessing is false.
C39_QueueDrains ==
    /\ [](Len(background.processingQueue) > 0
          => background.badgeText = <<"1", "2", "3", "4", "5">>[Len(background.processingQueue)])
    /\ []((background.processingQueue = <<>> /\ ~background.isProcessing)
          => background.badgeText = "")
    /\ []<>(background.processingQueue = <<>> /\ ~background.isProcessing)

\* C39: the queue has drained after an item whose processing raised an error,
\* and the badge is empty
C39_Witness ==
    /\ background.pc = "idle"
    /\ background.processingQueue = <<>>
    /\ ~background.isProcessing
    /\ background.badgeText = ""
    /\ \E i \in DOMAIN background.console : background.console[i].level = "error"
    /\ Len(hist.received) = 2

====
